---- MODULE Spec2Model ----
(***************************************************************************)
(* Model of kfix (src/kfix): the auto-fix pipeline of cli.py (Spec), the    *)
(* watch loop of cli.py (SpecWatch), the health scanner of kubectl.py      *)
(* (SpecScan) and its resource classifiers (SpecClassify), the extraction  *)
(* of commands from a diagnosis (SpecExtract), the scan, watch and         *)
(* diagnose commands from the reachability probe to the exit status        *)
(* (SpecCommand), the classification of one command (SpecSignature),       *)
(* Kubectl._run with its cache (SpecRun) and stream_diagnosis              *)
(* (SpecStream).  Each specification moves the variables of its own        *)
(* component and leaves the others at rest; SpecCommand also moves those   *)
(* of apply_fixes, which a diagnose command calls.                         *)
(*                                                                         *)
(* A command is a sequence of lexemes: a word (a run of characters that    *)
(* holds neither white space nor a quote), a blank " " or a single quote   *)
(* "'".  shlex.split is modelled on these lexemes.                         *)
(*                                                                         *)
(* The console is modelled as the sequence `out` of the calls made on it   *)
(* (console.print, Confirm.ask) and on subprocess.run, in program order.   *)
(* What the terminal library makes of the text it is handed is not part of *)
(* the model.                                                              *)
(***************************************************************************)
EXTENDS Integers, Sequences, FiniteSets, TLC

\* ---------------------------------------------------------------- bounds
MaxBatch == 2

\* ------------------------------------------------------------- constants
\* cli.py:32-41
SAFE_AUTO_FIX_PREFIXES ==
    {"annotate", "apply", "label", "patch", "rollout restart", "scale",
     "set image", "set resources"}

\* cli.py:42
RISKY_AUTO_FIX_VERBS == {"delete", "drain", "replace"}

\* cli.py:160
VALID_POLICIES == {"off", "review", "safe"}

\* ------------------------------------------------------------ shlex.split
\* shlex.split(command), cli.py:48 and cli.py:204: white space separates
\* tokens, a single quote opens a quoted run closed by the next single quote,
\* adjacent runs join into one token, '' is an empty token, and a quote left
\* open raises ValueError (ok = FALSE).
RECURSIVE shlex_scan(_, _, _, _, _, _)
shlex_scan(cmd, k, cur, have, inq, acc) ==
    IF k > Len(cmd)
    THEN IF inq
         THEN [ok |-> FALSE, parts |-> <<>>]
         ELSE [ok |-> TRUE, parts |-> IF have THEN Append(acc, cur) ELSE acc]
    ELSE LET c == cmd[k] IN
         IF inq
         THEN IF c = "'"
              THEN shlex_scan(cmd, k + 1, cur, TRUE, FALSE, acc)
              ELSE shlex_scan(cmd, k + 1, cur \o c, TRUE, TRUE, acc)
         ELSE IF c = " "
              THEN shlex_scan(cmd, k + 1, "", FALSE, FALSE,
                             IF have THEN Append(acc, cur) ELSE acc)
              ELSE IF c = "'"
                   THEN shlex_scan(cmd, k + 1, cur, TRUE, TRUE, acc)
                   ELSE shlex_scan(cmd, k + 1, cur \o c, TRUE, FALSE, acc)

shlex_split(cmd) == shlex_scan(cmd, 1, "", FALSE, FALSE, <<>>)

command_action_signature_second_token(command) ==
    LET r == shlex_split(command)
        parts == r.parts
    IN  IF ~r.ok THEN ""
        ELSE IF Len(parts) < 2 \/ parts[1] # "kubectl" THEN ""
        ELSE parts[2]

\* cli.py:45-59
command_action_signature(command) ==
    LET r == shlex_split(command)
        parts == r.parts
    IN  IF ~r.ok THEN ""
        ELSE IF Len(parts) < 2 \/ parts[1] # "kubectl" THEN ""
        ELSE IF Len(parts) >= 3 /\ parts[2] = "rollout" /\ parts[3] = "restart"
             THEN "rollout restart"
        ELSE IF Len(parts) >= 3 /\ parts[2] = "set"
                /\ parts[3] \in {"image", "resources"}
             THEN "set " \o parts[3]
        ELSE parts[2]

\* cli.py:62-64
is_risky_command(command) ==
    command_action_signature(command) \in RISKY_AUTO_FIX_VERBS

is_safe_auto_fix_command_any_verb(command) ==
    command_action_signature(command) # ""

\* cli.py:67-69
is_safe_auto_fix_command(command) ==
    command_action_signature(command) \in SAFE_AUTO_FIX_PREFIXES

\* --------------------------------------------------------------- inputs
\* The commands a batch is drawn from.
CommandCatalogue ==
    { <<"kubectl", " ", "scale", " ", "deploy/web">>,
      <<"kubectl", " ", "rollout", " ", "restart", " ", "deploy/web">>,
      <<"kubectl", " ", "delete", " ", "pod/web">>,
      <<"kubectl", " ", "'", "drain", "'", " ", "node-1">>,
      <<"kubectl", " ", "get", " ", "pods">>,
      <<"kubectl", " ", "get", " ", "'", "pods">>,
      <<"kubectlx", " ", "delete", " ", "pod/web">> }

Batches == UNION { [1..n -> CommandCatalogue] : n \in 0..MaxBatch }

\* The policy values an invocation is given; "auto" is not a policy.
PolicyValues == VALID_POLICIES \cup {"auto"}

\* What subprocess.run does with a command: exit status 0, a non-zero exit
\* status, subprocess.TimeoutExpired, or another exception.
RunOutcomes == {"ok", "failed", "timed_out", "exception"}

\* ---------------------------------------------------------------- state
VARIABLES
    commands,   \* apply_fixes argument
    auto_yes,   \* apply_fixes argument
    dry_run,    \* apply_fixes argument
    policy,     \* apply_fixes argument
    pc,         \* position in apply_fixes
    idx,        \* loop variable i of cli.py:184 (1-based)
    apply_all,  \* local apply_all
    out         \* calls on the console and on subprocess.run, in order

\* watch (cli.py:741-846)
VARIABLES
    w_pc,          \* position in watch: "idle", "query", "sleep", "stopped", "crashed"
    known_keys,    \* local known_keys
    first_run,     \* local first_run
    new_keys,      \* local new_keys of the last cycle
    resolved_keys, \* local resolved_keys of the last cycle
    w_rows,        \* rows of the table printed by the last cycle
    w_counts,      \* counts printed by the last cycle (-1: line not printed)
    w_found,       \* the identity sets found by the cycles so far, in order
    w_stopped_in   \* where the interrupt was taken

\* the classifiers of kubectl.py applied to one listing entry
VARIABLES
    c_pc,    \* "idle", "entry" (an entry is at hand) or "done" (it is classified)
    c_kind,  \* "pod", "deployment", "service" or "node"
    c_in,    \* the listing entry (for a service: the entry and the endpoints listing)
    c_out    \* [raised, findings]: what the classification gave

\* the scanner (kubectl.py:441-679)
VARIABLES
    s_mode,        \* "" (idle), "namespace" (scan_namespace) or "all" (scan_all_namespaces)
    s_pc,          \* the query block the scan is at, "done" (returned) or "raised"
    s_namespaces,  \* the namespaces the scan iterates over
    s_i,           \* position in s_namespaces (1-based)
    s_unhealthy,   \* local unhealthy
    s_queries,     \* the queries issued so far, in order
    s_ns_answer,   \* what the namespace query answered ("" before it)
    s_last         \* what the last query block was answered

\* extract_kubectl_commands (cli.py:110-140)
VARIABLES
    e_pc,  \* "idle", "text" (a diagnosis is at hand) or "done" (returned)
    diagnosis,  \* argument diagnosis, as its lines
    extracted  \* the list returned

\* the scan, watch and diagnose commands (cli.py:468-846)
VARIABLES
    invoked,  \* "" (idle), "scan", "watch" or "diagnose": the command invoked
    context,  \* option --context ("" when it is not given)
    output_format,  \* option --output
    auto_fix,  \* option --auto-fix
    k_pc,  \* position in the command
    k_unhealthy,  \* local unhealthy of scan
    k_i,  \* loop variable of cli.py:685 (1-based)
    results,  \* local results of scan
    k_log,  \* the kubectl processes spawned through Kubectl._run and the requests to the diagnosis producer, in order
    k_cache,  \* the keys of self._cache the probe and the diagnostic queries have stored
    k_printed,  \* the document scan prints on standard output ([total |-> -1] before it)
    exit_status  \* exit status of the command (-1 while it runs)

\* Kubectl._run and its cache (kubectl.py:27-130)
VARIABLES
    r_pc,  \* "idle" or "ready" (an instance exists)
    use_cache,  \* self.use_cache
    cache_ttl,  \* self.cache_ttl
    r_context,  \* self.context ("" for None)
    cache,  \* self._cache, from key to (timestamp, returncode)
    clock,  \* time.time()
    r_calls,  \* number of calls of _run made on the instance
    r_last  \* the last call of _run: its arguments and what the caller got

\* stream_diagnosis (cli.py:72-107)
VARIABLES
    st_pc,  \* "idle", "loop" (in the for loop), "returned" or "raised"
    stream,  \* argument stream: the chunks it will yield
    st_taken,  \* number of chunks the loop has taken from the stream
    full_text,  \* local full_text
    rendered,  \* the texts handed to live.update, in order
    st_result  \* the text returned ("" before the return)

\* the classification of one command (cli.py:45-69)
VARIABLES
    g_pc,  \* "idle", "command" (a command is at hand) or "done" (it is classified)
    g_command,  \* argument command, as its lexemes
    g_signature,  \* what _command_action_signature returned
    g_risky,  \* what _is_risky_command returned
    g_safe  \* what _is_safe_auto_fix_command returned

fix_vars == <<commands, auto_yes, dry_run, policy, pc, idx, apply_all, out>>

watch_vars == <<w_pc, known_keys, first_run, new_keys, resolved_keys, w_rows,
                w_counts, w_found, w_stopped_in>>

cls_vars == <<c_pc, c_kind, c_in, c_out>>

scan_vars == <<s_mode, s_pc, s_namespaces, s_i, s_unhealthy, s_queries,
               s_ns_answer, s_last>>

ext_vars == <<e_pc, diagnosis, extracted>>

cmd_vars == <<invoked, context, output_format, auto_fix, k_pc, k_unhealthy, k_i,
              results, k_log, k_cache, k_printed, exit_status>>

run_vars == <<r_pc, use_cache, cache_ttl, r_context, cache, clock, r_calls,
              r_last>>

stream_vars == <<st_pc, stream, st_taken, full_text, rendered, st_result>>

sig_vars == <<g_pc, g_command, g_signature, g_risky, g_safe>>

vars == <<fix_vars, watch_vars, cls_vars, scan_vars, ext_vars, cmd_vars,
          run_vars, stream_vars, sig_vars>>

args == <<commands, auto_yes, dry_run, policy>>

\* the variables apply_fixes does not touch
not_fix == <<watch_vars, cls_vars, scan_vars, ext_vars,
             cmd_vars, run_vars, stream_vars, sig_vars>>

\* the variables watch does not touch
not_watch == <<fix_vars, cls_vars, scan_vars, ext_vars,
               cmd_vars, run_vars, stream_vars, sig_vars>>

\* the variables the classifiers do not touch
not_cls == <<fix_vars, watch_vars, scan_vars, ext_vars,
             cmd_vars, run_vars, stream_vars, sig_vars>>

\* the variables the scanner does not touch
not_scan == <<fix_vars, watch_vars, cls_vars, ext_vars,
              cmd_vars, run_vars, stream_vars, sig_vars>>

\* the variables extract_kubectl_commands does not touch
not_ext == <<fix_vars, watch_vars, cls_vars, scan_vars,
             cmd_vars, run_vars, stream_vars, sig_vars>>

\* the variables the command does not touch
not_cmd == <<fix_vars, watch_vars, cls_vars, scan_vars,
             ext_vars, run_vars, stream_vars, sig_vars>>

\* the variables Kubectl._run does not touch
not_run == <<fix_vars, watch_vars, cls_vars, scan_vars,
             ext_vars, cmd_vars, stream_vars, sig_vars>>

\* the variables stream_diagnosis does not touch
not_stream == <<fix_vars, watch_vars, cls_vars, scan_vars,
                ext_vars, cmd_vars, run_vars, sig_vars>>

\* apply_fixes is not running
FixAtRest ==
    /\ commands = <<>> /\ auto_yes = FALSE /\ dry_run = FALSE /\ policy = "off"
    /\ pc = "idle" /\ idx = 0 /\ apply_all = FALSE /\ out = <<>>

\* watch is not running
WatchAtRest ==
    /\ w_pc = "idle" /\ known_keys = {} /\ first_run = TRUE
    /\ new_keys = {} /\ resolved_keys = {} /\ w_rows = <<>>
    /\ w_counts = [new |-> -1, resolved |-> -1]
    /\ w_found = <<>> /\ w_stopped_in = ""

\* no entry is being classified
ClassifyAtRest ==
    /\ c_pc = "idle" /\ c_kind = "" /\ c_in = <<>>
    /\ c_out = [raised |-> FALSE, findings |-> <<>>]

\* no scan is running
ScanAtRest ==
    /\ s_mode = "" /\ s_pc = "idle" /\ s_namespaces = <<>> /\ s_i = 0
    /\ s_unhealthy = <<>> /\ s_queries = <<>> /\ s_ns_answer = ""
    /\ s_last = <<>>

\* extract_kubectl_commands is not running
ExtractAtRest ==
    /\ e_pc = "idle" /\ diagnosis = <<>> /\ extracted = <<>>

\* the command is not running
CommandAtRest ==
    /\ invoked = "" /\ context = "" /\ output_format = "rich" /\ auto_fix = FALSE
    /\ k_pc = "idle" /\ k_unhealthy = <<>> /\ k_i = 0 /\ results = <<>>
    /\ k_log = <<>> /\ k_cache = {}
    /\ k_printed = [resources |-> <<>>, total |-> -1]
    /\ exit_status = -1

\* Kubectl._run is not running
RunAtRest ==
    /\ r_pc = "idle" /\ use_cache = FALSE /\ cache_ttl = 0 /\ r_context = ""
    /\ cache = <<>> /\ clock = 0 /\ r_calls = 0 /\ r_last = <<>>

\* stream_diagnosis is not running
StreamAtRest ==
    /\ st_pc = "idle" /\ stream = <<>> /\ st_taken = 0 /\ full_text = ""
    /\ rendered = <<>> /\ st_result = ""

\* the command classification is not running
SignatureAtRest ==
    /\ g_pc = "idle" /\ g_command = <<>> /\ g_signature = ""
    /\ g_risky = FALSE /\ g_safe = FALSE

Ev(e, i, c) == [ev |-> e, i |-> i, cmd |-> c]

DisplayList_AllButLast(cmds) ==
    <<Ev("found_header", 0, <<>>)>> \o
    [k \in 1..(Len(cmds) - 1) |-> Ev("list_item", k, cmds[k])]

\* cli.py:164-166
DisplayList(cmds) ==
    <<Ev("found_header", 0, <<>>)>> \o
    [k \in 1..Len(cmds) |-> Ev("list_item", k, cmds[k])]

AsksWholeBatch_AnyBatch == Len(commands) > 0 /\ ~auto_yes

\* cli.py:179
AsksWholeBatch == Len(commands) > 1 /\ ~auto_yes

NeedsConfirm_BatchApprovalCoversRisky(is_risky) ==
    ~apply_all /\ ~auto_yes

NeedsConfirm_RiskyAlwaysAsks(is_risky) ==
    (~apply_all /\ ~auto_yes) \/ is_risky

\* cli.py:192
NeedsConfirm(is_risky) ==
    (~apply_all /\ ~auto_yes) \/ (is_risky /\ ~auto_yes)

Init ==
    /\ commands \in Batches
    /\ auto_yes \in BOOLEAN
    /\ dry_run \in BOOLEAN
    /\ policy \in PolicyValues
    /\ pc = "start"
    /\ idx = 0
    /\ apply_all = FALSE
    /\ out = <<>>
    /\ WatchAtRest
    /\ ClassifyAtRest
    /\ ScanAtRest
    /\ ExtractAtRest
    /\ CommandAtRest
    /\ RunAtRest
    /\ StreamAtRest
    /\ SignatureAtRest

\* cli.py:157-159
BeginNoCommands ==
    /\ pc = "start"
    /\ commands = <<>>
    /\ out' = Append(out, Ev("no_commands", 0, <<>>))
    /\ pc' = "done"
    /\ UNCHANGED <<not_fix, args, idx, apply_all>>

\* cli.py:160-162
BeginInvalidPolicy ==
    /\ pc = "start"
    /\ commands # <<>>
    /\ policy \notin VALID_POLICIES
    /\ out' = Append(out, Ev("invalid_policy", 0, <<>>))
    /\ pc' = "done"
    /\ UNCHANGED <<not_fix, args, idx, apply_all>>

BeginPolicyOff_YesOverrides ==
    /\ pc = "start"
    /\ commands # <<>>
    /\ policy = "off"
    /\ IF auto_yes
       THEN /\ out' = DisplayList(commands)
            /\ apply_all' = TRUE
            /\ idx' = 1
            /\ pc' = "loop"
       ELSE /\ out' = DisplayList(commands) \o <<Ev("policy_off", 0, <<>>)>>
            /\ pc' = "done"
            /\ UNCHANGED <<idx, apply_all>>
    /\ UNCHANGED <<not_fix, args>>

\* cli.py:164-170
BeginPolicyOff ==
    /\ pc = "start"
    /\ commands # <<>>
    /\ policy = "off"
    /\ out' = DisplayList(commands) \o <<Ev("policy_off", 0, <<>>)>>
    /\ pc' = "done"
    /\ UNCHANGED <<not_fix, args, idx, apply_all>>

BeginDryRun_FallsThrough ==
    /\ pc = "start"
    /\ commands # <<>>
    /\ policy \in VALID_POLICIES \ {"off"}
    /\ dry_run
    /\ out' = DisplayList(commands) \o <<Ev("dry_run", 0, <<>>)>>
    /\ apply_all' = auto_yes
    /\ idx' = 1
    /\ pc' = "loop"
    /\ UNCHANGED <<not_fix, args>>

\* cli.py:164-166, 172-174
BeginDryRun ==
    /\ pc = "start"
    /\ commands # <<>>
    /\ policy \in VALID_POLICIES \ {"off"}
    /\ dry_run
    /\ out' = DisplayList(commands) \o <<Ev("dry_run", 0, <<>>)>>
    /\ pc' = "done"
    /\ UNCHANGED <<not_fix, args, idx, apply_all>>

\* cli.py:164-166, 176-180: the whole-batch prompt is issued
BeginAskAll ==
    /\ pc = "start"
    /\ commands # <<>>
    /\ policy \in VALID_POLICIES \ {"off"}
    /\ ~dry_run
    /\ AsksWholeBatch
    /\ out' = DisplayList(commands) \o <<Ev("prompt_all", 0, <<>>)>>
    /\ pc' = "ask_all"
    /\ UNCHANGED <<not_fix, args, idx, apply_all>>

\* cli.py:164-166, 176-182: no whole-batch prompt
BeginNoAsk ==
    /\ pc = "start"
    /\ commands # <<>>
    /\ policy \in VALID_POLICIES \ {"off"}
    /\ ~dry_run
    /\ ~AsksWholeBatch
    /\ out' = DisplayList(commands)
    /\ apply_all' = auto_yes
    /\ idx' = 1
    /\ pc' = "loop"
    /\ UNCHANGED <<not_fix, args>>

\* cli.py:180: Confirm.ask("Apply all commands?") returns
AnswerAll ==
    /\ pc = "ask_all"
    /\ \E ans \in BOOLEAN :
          /\ apply_all' = ans
          /\ out' = Append(out, Ev(IF ans THEN "answer_yes" ELSE "answer_no", 0, <<>>))
    /\ idx' = 1
    /\ pc' = "loop"
    /\ UNCHANGED <<not_fix, args>>

\* cli.py:184-187: a command the safe policy blocks
LoopBlocked ==
    /\ pc = "loop"
    /\ idx <= Len(commands)
    /\ policy = "safe" /\ ~is_safe_auto_fix_command(commands[idx])
    /\ out' = Append(out, Ev("blocked", idx, <<>>))
    /\ idx' = idx + 1
    /\ UNCHANGED <<not_fix, args, pc, apply_all>>

\* cli.py:189-196: the per-command prompt is issued
LoopAsk ==
    /\ pc = "loop"
    /\ idx <= Len(commands)
    /\ ~(policy = "safe" /\ ~is_safe_auto_fix_command(commands[idx]))
    /\ NeedsConfirm(is_risky_command(commands[idx]))
    /\ out' = Append(out,
                 Ev(IF is_risky_command(commands[idx])
                    THEN "prompt_destructive" ELSE "prompt_execute", idx, <<>>))
    /\ pc' = "ask_cmd"
    /\ UNCHANGED <<not_fix, args, idx, apply_all>>

\* cli.py:189-192: no per-command prompt
LoopNoAsk ==
    /\ pc = "loop"
    /\ idx <= Len(commands)
    /\ ~(policy = "safe" /\ ~is_safe_auto_fix_command(commands[idx]))
    /\ ~NeedsConfirm(is_risky_command(commands[idx]))
    /\ pc' = "exec"
    /\ UNCHANGED <<not_fix, args, idx, apply_all, out>>

\* cli.py:196-198: Confirm.ask returns False
AnswerCmdNo ==
    /\ pc = "ask_cmd"
    /\ out' = out \o <<Ev("answer_no", idx, <<>>), Ev("skipped", idx, <<>>)>>
    /\ idx' = idx + 1
    /\ pc' = "loop"
    /\ UNCHANGED <<not_fix, args, apply_all>>

\* cli.py:196: Confirm.ask returns True
AnswerCmdYes ==
    /\ pc = "ask_cmd"
    /\ out' = Append(out, Ev("answer_yes", idx, <<>>))
    /\ pc' = "exec"
    /\ UNCHANGED <<not_fix, args, idx, apply_all>>

Execute_FailureEndsBatch ==
    /\ pc = "exec"
    /\ LET cmd == commands[idx]
           r == shlex_split(cmd)
       IN  IF ~r.ok \/ r.parts = <<>>
           THEN /\ out' = out \o <<Ev("executing", idx, cmd),
                                  Ev("exception", idx, <<>>)>>
                /\ pc' = "done"
           ELSE \E o \in RunOutcomes :
                   /\ out' = out \o <<Ev("executing", idx, cmd),
                                      Ev("run", idx, r.parts),
                                      Ev(o, idx, <<>>)>>
                   /\ pc' = IF o = "ok" THEN "loop" ELSE "done"
    /\ idx' = idx + 1
    /\ UNCHANGED <<not_fix, args, apply_all>>

\* cli.py:200-219: the command is announced, tokenized and run; whatever the
\* outcome, the loop goes on with the next command.
Execute ==
    /\ pc = "exec"
    /\ LET cmd == commands[idx]
           r == shlex_split(cmd)
       IN  IF ~r.ok \/ r.parts = <<>>
           THEN out' = out \o <<Ev("executing", idx, cmd),
                               Ev("exception", idx, <<>>)>>
           ELSE \E o \in RunOutcomes :
                   out' = out \o <<Ev("executing", idx, cmd),
                                   Ev("run", idx, r.parts),
                                   Ev(o, idx, <<>>)>>
    /\ idx' = idx + 1
    /\ pc' = "loop"
    /\ UNCHANGED <<not_fix, args, apply_all>>

\* cli.py:184: the loop is exhausted, apply_fixes returns
LoopEnd ==
    /\ pc = "loop"
    /\ idx > Len(commands)
    /\ pc' = "done"
    /\ UNCHANGED <<not_fix, args, idx, apply_all, out>>

Next ==
    \/ BeginNoCommands
    \/ BeginInvalidPolicy
    \/ BeginPolicyOff
    \/ BeginDryRun
    \/ BeginAskAll
    \/ BeginNoAsk
    \/ AnswerAll
    \/ LoopBlocked
    \/ LoopAsk
    \/ LoopNoAsk
    \/ AnswerCmdNo
    \/ AnswerCmdYes
    \/ Execute
    \/ LoopEnd

Spec == Init /\ [][Next]_vars

\* ------------------------------------------------------------------ watch
\* bound on the number of scan cycles of one watch run
MaxCycles == 3

\* an unhealthy-resource record, kubectl.py:461-467
Finding(kind, name, namespace, status, reason) ==
    [kind |-> kind, name |-> name, namespace |-> namespace,
     status |-> status, reason |-> reason]

\* cli.py:778-779, 795: the identity of a record
Key(r) == <<r.kind, r.name, r.namespace>>

\* The records a scan of the watched cluster may return: one pod seen with
\* two different statuses and reasons, and one node.
WatchFindings ==
    { Finding("pod", "web", "default", "Pending", "ImagePullBackOff"),
      Finding("pod", "web", "default", "Failed", "Error"),
      Finding("node", "node-1", "", "NotReady", "KubeletNotReady") }

\* The lists a scan may return (the scanner does not remove duplicates).
WatchScans ==
    {<<>>} \cup { <<f>> : f \in WatchFindings }
           \cup { <<f, g>> : f \in WatchFindings, g \in WatchFindings }

next_known_keys_accumulate(known, current) == known \cup current

\* cli.py:841
next_known_keys(known, current) == current

InitWatch ==
    /\ FixAtRest
    /\ ClassifyAtRest
    /\ ScanAtRest
    /\ ExtractAtRest
    /\ CommandAtRest
    /\ RunAtRest
    /\ StreamAtRest
    /\ SignatureAtRest
    /\ w_pc = "query"
    /\ known_keys = {}
    /\ first_run = TRUE
    /\ new_keys = {}
    /\ resolved_keys = {}
    /\ w_rows = <<>>
    /\ w_counts = [new |-> -1, resolved |-> -1]
    /\ w_found = <<>>
    /\ w_stopped_in = ""

\* cli.py:770-843: the scan returns; the cycle computes the keys, prints the
\* table and the counts, keeps the snapshot and goes to sleep.
WatchCycle ==
    /\ w_pc = "query"
    /\ \E unhealthy \in WatchScans :
          LET current_keys == { Key(unhealthy[k]) : k \in DOMAIN unhealthy }
              new == current_keys \ known_keys
              resolved == known_keys \ current_keys
          IN  /\ new_keys' = new
              /\ resolved_keys' = resolved
              /\ w_rows' = [k \in DOMAIN unhealthy |->
                              [key |-> Key(unhealthy[k]),
                               status |-> unhealthy[k].status,
                               reason |-> unhealthy[k].reason,
                               flagged |-> Key(unhealthy[k]) \in new]]
              /\ w_counts' =
                    [new |-> IF ~first_run /\ new # {}
                             THEN Cardinality(new) ELSE -1,
                     resolved |-> IF ~first_run /\ resolved # {}
                                  THEN Cardinality(resolved) ELSE -1]
              /\ known_keys' = next_known_keys(known_keys, current_keys)
              /\ w_found' = Append(w_found, current_keys)
    /\ first_run' = FALSE
    /\ w_pc' = "sleep"
    /\ UNCHANGED <<not_watch, w_stopped_in>>

\* cli.py:773-776: the scan raises an exception that scan_namespace does not
\* catch (see ScanRaises); nothing in watch catches it either.
WatchScanRaises ==
    /\ w_pc = "query"
    /\ w_pc' = "crashed"
    /\ UNCHANGED <<not_watch, known_keys, first_run, new_keys, resolved_keys,
                   w_rows, w_counts, w_found, w_stopped_in>>

\* cli.py:843, 770: time.sleep returns and the next scan starts
WatchWake ==
    /\ w_pc = "sleep"
    /\ Len(w_found) < MaxCycles
    /\ w_pc' = "query"
    /\ UNCHANGED <<not_watch, known_keys, first_run, new_keys, resolved_keys,
                   w_rows, w_counts, w_found, w_stopped_in>>

\* cli.py:769, 845-846: KeyboardInterrupt is raised wherever the loop is, in
\* the sleep or in a cluster query in flight (subprocess.run kills the child
\* and re-raises); the handler prints "Watch stopped." and watch returns.
WatchInterrupt ==
    /\ w_pc \in {"query", "sleep"}
    /\ w_stopped_in' = w_pc
    /\ w_pc' = "stopped"
    /\ UNCHANGED <<not_watch, known_keys, first_run, new_keys, resolved_keys,
                   w_rows, w_counts, w_found>>

NextWatch ==
    \/ WatchCycle
    \/ WatchScanRaises
    \/ WatchWake
    \/ WatchInterrupt

SpecWatch == InitWatch /\ [][NextWatch]_vars

\* ------------------------------------------------------------ classifiers
\* A listing entry is a record of the JSON fields the code reads.  A key
\* that is missing is ABSENT; a number field is Num(n), NoNum (key missing)
\* or NullNum (JSON null).
ABSENT == "<absent>"

Num(n) == [t |-> "int", n |-> n]

NoNum == [t |-> "absent", n |-> 0]

NullNum == [t |-> "null", n |-> 0]

\* state.waiting / state.terminated of a container status: NO_STATE when the
\* key is missing or an empty object, NO_REASON for a non-empty object with
\* no "reason" key, else the reason string.
NO_STATE == "<none>"

NO_REASON == "<no reason>"

\* bounds of the entries drawn
MaxContainers == 2

MaxReplicas == 2

MaxSubsets == 2

MaxConditions == 2

\* kubectl.py:706-709 and 710-713: waiting.get("reason", "Unknown")
state_reason(st) == IF st = NO_REASON THEN "Unknown" ELSE st

\* kubectl.py:699-713: the loop over containerStatuses from position k on;
\* ABSENT when it ends without returning
RECURSIVE container_reason(_, _)
container_reason(cs, k) ==
    IF k > Len(cs) THEN ABSENT
    ELSE IF cs[k].waiting # NO_STATE THEN state_reason(cs[k].waiting)
    ELSE IF cs[k].terminated # NO_STATE THEN state_reason(cs[k].terminated)
    ELSE container_reason(cs, k + 1)

\* kubectl.py:681-716
pod_failure_reason(pod) ==
    LET r == container_reason(pod.cs, 1)
    IN  IF r # ABSENT THEN r
        ELSE IF pod.reason = ABSENT THEN "Unknown" ELSE pod.reason

\* kubectl.py:457-467: one entry of the pod listing
pod_findings(item, namespace) ==
    LET phase == IF item.phase = ABSENT THEN "Unknown" ELSE item.phase
    IN  IF phase \notin {"Running", "Succeeded"}
        THEN << Finding("pod",
                        IF item.name = ABSENT THEN "unknown" ELSE item.name,
                        namespace, phase, pod_failure_reason(item)) >>
        ELSE <<>>

deployment_findings_at_most(item, namespace) ==
    LET desired == IF item.replicas.t = "absent" THEN Num(0) ELSE item.replicas
        available == IF item.available.t = "int" THEN item.available.n ELSE 0
    IN  IF desired.t = "null"
        THEN [raised |-> TRUE, findings |-> <<>>]
        ELSE [raised |-> FALSE,
              findings |->
                 IF available <= desired.n
                 THEN << Finding("deployment",
                                 IF item.name = ABSENT THEN "unknown" ELSE item.name,
                                 namespace,
                                 ToString(available) \o "/" \o ToString(desired.n)
                                     \o " available",
                                 "Insufficient replicas") >>
                 ELSE <<>>]

\* kubectl.py:479-491: one entry of the deployment listing; a null
\* spec.replicas makes `available < desired` raise TypeError
deployment_findings(item, namespace) ==
    LET desired == IF item.replicas.t = "absent" THEN Num(0) ELSE item.replicas
        available == IF item.available.t = "int" THEN item.available.n ELSE 0
    IN  IF desired.t = "null"
        THEN [raised |-> TRUE, findings |-> <<>>]
        ELSE [raised |-> FALSE,
              findings |->
                 IF available < desired.n
                 THEN << Finding("deployment",
                                 IF item.name = ABSENT THEN "unknown" ELSE item.name,
                                 namespace,
                                 ToString(available) \o "/" \o ToString(desired.n)
                                     \o " available",
                                 "Insufficient replicas") >>
                 ELSE <<>>]

\* kubectl.py:602-606: endpoints_by_name.get(name, {}): the last entry of the
\* endpoints listing with that name, its name being a non-empty string
RECURSIVE endpoint_subsets(_, _, _)
endpoint_subsets(endpoints, name, k) ==
    IF k < 1 THEN <<>>
    ELSE IF endpoints[k].name # ABSENT /\ endpoints[k].name = name
         THEN endpoints[k].subsets
         ELSE endpoint_subsets(endpoints, name, k - 1)

has_ready_addresses_any_address(subsets) ==
    \E k \in DOMAIN subsets :
        subsets[k].addresses + subsets[k].notReadyAddresses > 0

\* kubectl.py:627-632
has_ready_addresses(subsets) ==
    \E k \in DOMAIN subsets : subsets[k].addresses > 0

\* kubectl.py:608-643: one entry of the service listing
service_findings(service, endpoints, namespace) ==
    LET name == IF service.name = ABSENT THEN "unknown" ELSE service.name
        service_type == IF service.type = ABSENT THEN "ClusterIP" ELSE service.type
    IN  IF service_type = "ExternalName" THEN <<>>
        ELSE IF service.selector \in {ABSENT, "<empty>"} THEN <<>>
        ELSE IF has_ready_addresses(endpoint_subsets(endpoints, name, Len(endpoints)))
             THEN <<>>
             ELSE << Finding("service", name, namespace, "NoReadyEndpoints",
                             "No ready endpoints") >>

\* kubectl.py:663-668: the loop over the conditions; every condition of type
\* Ready overwrites ready and reason
RECURSIVE node_ready(_, _, _)
node_ready(conditions, k, acc) ==
    IF k > Len(conditions) THEN acc
    ELSE node_ready(conditions, k + 1,
            IF conditions[k].type = "Ready"
            THEN [ready |-> conditions[k].status = "True",
                  reason |-> IF conditions[k].reason = ABSENT
                             THEN "Unknown" ELSE conditions[k].reason]
            ELSE acc)

\* kubectl.py:660-676: one entry of the node listing
node_findings(item) ==
    LET r == node_ready(item.conditions, 1, [ready |-> FALSE, reason |-> "Unknown"])
    IN  IF ~r.ready
        THEN << Finding("node",
                        IF item.name = ABSENT THEN "unknown" ELSE item.name,
                        "", "NotReady", r.reason) >>
        ELSE <<>>

\* sequences over S of length at most n
RECURSIVE SeqsUpTo(_, _)
SeqsUpTo(S, n) ==
    IF n = 0 THEN {<<>>}
    ELSE LET shorter == SeqsUpTo(S, n - 1)
         IN  shorter \cup { Append(q, x) : q \in shorter, x \in S }

\* the listing entries drawn
ContainerStatuses ==
    [waiting : {NO_STATE, NO_REASON, "ImagePullBackOff"},
     terminated : {NO_STATE, NO_REASON, "OOMKilled"}]

PodItems ==
    [name : {"web", ABSENT},
     phase : {"Running", "Succeeded", "Pending", "Failed", ABSENT},
     cs : SeqsUpTo(ContainerStatuses, MaxContainers),
     reason : {ABSENT, "Evicted"}]

NumFields == {NoNum, NullNum} \cup { Num(n) : n \in 0..MaxReplicas }

DeploymentItems ==
    [name : {"web"}, replicas : NumFields, available : NumFields]

ServiceItems ==
    [name : {"web", ABSENT},
     type : {"ClusterIP", "ExternalName", ABSENT},
     selector : {ABSENT, "<empty>", "app=web"}]

Subsets == [addresses : {0, 1}, notReadyAddresses : {0, 1}]

\* endpoints listings: none, one for the service "web", one for another
\* service, or both in either order
EndpointsListings ==
    LET web == { [name |-> "web", subsets |-> ss] :
                    ss \in SeqsUpTo(Subsets, MaxSubsets) }
        db == { [name |-> "db", subsets |-> <<[addresses |-> 1,
                                               notReadyAddresses |-> 0]>>] }
    IN  {<<>>} \cup { <<e>> : e \in web \cup db }
               \cup { <<e, f>> : e \in web, f \in db }
               \cup { <<f, e>> : e \in web, f \in db }

Conditions ==
    [type : {"Ready", "MemoryPressure"},
     status : {"True", "False", "Unknown"},
     reason : {ABSENT, "KubeletNotReady"}]

NodeItems ==
    [name : {"node-1"}, conditions : SeqsUpTo(Conditions, MaxConditions)]

InitClassify ==
    /\ FixAtRest
    /\ WatchAtRest
    /\ ScanAtRest
    /\ ExtractAtRest
    /\ CommandAtRest
    /\ RunAtRest
    /\ StreamAtRest
    /\ SignatureAtRest
    /\ c_pc = "entry"
    /\ c_out = [raised |-> FALSE, findings |-> <<>>]
    /\ \/ c_kind = "pod" /\ c_in \in PodItems
       \/ c_kind = "deployment" /\ c_in \in DeploymentItems
       \/ c_kind = "service"
          /\ c_in \in [service : ServiceItems, endpoints : EndpointsListings]
       \/ c_kind = "node" /\ c_in \in NodeItems

\* kubectl.py:457-467
ClassifyPod ==
    /\ c_pc = "entry" /\ c_kind = "pod"
    /\ c_out' = [raised |-> FALSE, findings |-> pod_findings(c_in, "default")]
    /\ c_pc' = "done"
    /\ UNCHANGED <<not_cls, c_kind, c_in>>

\* kubectl.py:479-491
ClassifyDeployment ==
    /\ c_pc = "entry" /\ c_kind = "deployment"
    /\ c_out' = deployment_findings(c_in, "default")
    /\ c_pc' = "done"
    /\ UNCHANGED <<not_cls, c_kind, c_in>>

\* kubectl.py:608-643
ClassifyService ==
    /\ c_pc = "entry" /\ c_kind = "service"
    /\ c_out' = [raised |-> FALSE,
                 findings |-> service_findings(c_in.service, c_in.endpoints,
                                               "default")]
    /\ c_pc' = "done"
    /\ UNCHANGED <<not_cls, c_kind, c_in>>

\* kubectl.py:660-676
ClassifyNode ==
    /\ c_pc = "entry" /\ c_kind = "node"
    /\ c_out' = [raised |-> FALSE, findings |-> node_findings(c_in)]
    /\ c_pc' = "done"
    /\ UNCHANGED <<not_cls, c_kind, c_in>>

NextClassify ==
    \/ ClassifyPod
    \/ ClassifyDeployment
    \/ ClassifyService
    \/ ClassifyNode

SpecClassify == InitClassify /\ [][NextClassify]_vars

\* --------------------------------------------------------------- scanner
\* What a cluster query gives (kubectl.py:90-130 called with check=False, and
\* json.loads on its output): "error" when _run raises KubectlError (time
\* out, kubectl not found), "empty" when the output is blank (as after a
\* non-zero exit that printed nothing), "bad_json" when json.loads raises
\* JSONDecodeError, "not_object" when the document parsed is not a JSON
\* object, "items" when it is an object: items is then its "items" list.
Answer(k, items) == [k |-> k, items |-> items]

Answers(listings) ==
    { Answer(k, <<>>) : k \in {"error", "empty", "bad_json", "not_object"} }
        \cup { Answer("items", l) : l \in listings }

\* the listings drawn
NamespaceListings ==
    { <<>>, <<"default">>, <<"default", "prod">>, <<"default", "default">> }

PodListings ==
    LET pod(name, phase, cs) ==
            [name |-> name, phase |-> phase, cs |-> cs, reason |-> ABSENT]
        pulling == <<[waiting |-> "ImagePullBackOff", terminated |-> NO_STATE]>>
    IN  { <<>>,
          << pod("web", "Running", <<>>) >>,
          << pod("web", "Pending", pulling) >>,
          << pod("api", "Running", <<>>), pod("web", "Failed", <<>>) >>,
          << pod(ABSENT, "Pending", pulling), pod(ABSENT, "Failed", <<>>) >> }

DeploymentListings ==
    LET deployment(replicas, available) ==
            [name |-> "web", replicas |-> replicas, available |-> available]
    IN  { <<>>,
          << deployment(Num(2), Num(2)) >>,
          << deployment(Num(2), NoNum) >>,
          << deployment(NullNum, Num(1)) >> }

ServiceListings ==
    { <<>>,
      << [name |-> "web", type |-> ABSENT, selector |-> "app=web"] >>,
      << [name |-> "web", type |-> "ExternalName", selector |-> ABSENT] >> }

ScanEndpointsListings ==
    { <<>>,
      << [name |-> "web",
          subsets |-> <<[addresses |-> 1, notReadyAddresses |-> 0]>>] >>,
      << [name |-> "web",
          subsets |-> <<[addresses |-> 0, notReadyAddresses |-> 1]>>] >> }

NodeListings ==
    LET node(status) ==
            [name |-> "node-1",
             conditions |-> <<[type |-> "Ready", status |-> status,
                               reason |-> "KubeletNotReady"]>>]
    IN  { <<>>, << node("True") >>, << node("False") >> }

\* kubectl.py:459-470: the loop over the pod listing, from entry k on
RECURSIVE pods_unhealthy(_, _, _)
pods_unhealthy(items, namespace, k) ==
    IF k > Len(items) THEN <<>>
    ELSE pod_findings(items[k], namespace) \o pods_unhealthy(items, namespace, k + 1)

\* kubectl.py:481-493: the loop over the deployment listing, from entry k on;
\* an entry that raises ends it
RECURSIVE deployments_unhealthy(_, _, _)
deployments_unhealthy(items, namespace, k) ==
    IF k > Len(items) THEN [raised |-> FALSE, findings |-> <<>>]
    ELSE LET head == deployment_findings(items[k], namespace)
             rest == deployments_unhealthy(items, namespace, k + 1)
         IN  IF head.raised \/ rest.raised
             THEN [raised |-> TRUE, findings |-> <<>>]
             ELSE [raised |-> FALSE, findings |-> head.findings \o rest.findings]

\* kubectl.py:608-643: the loop over the service listing, from entry k on
RECURSIVE services_unhealthy(_, _, _, _)
services_unhealthy(items, endpoints, namespace, k) ==
    IF k > Len(items) THEN <<>>
    ELSE service_findings(items[k], endpoints, namespace)
            \o services_unhealthy(items, endpoints, namespace, k + 1)

\* kubectl.py:660-676: the loop over the node listing, from entry k on
RECURSIVE nodes_unhealthy(_, _)
nodes_unhealthy(items, k) ==
    IF k > Len(items) THEN <<>>
    ELSE node_findings(items[k]) \o nodes_unhealthy(items, k + 1)

\* One query block, try ... except (KubectlError, JSONDecodeError): pass
\* (kubectl.py:453-472, 475-495, 656-678).  KubectlError and JSONDecodeError
\* are caught and blank output is skipped: no findings.  data.get on a
\* document that is not an object raises AttributeError, which the except
\* clause does not name.  `found` is what the loop over the items gives.
query_block(answer, found) ==
    IF answer.k \in {"error", "empty", "bad_json"}
    THEN [raised |-> FALSE, findings |-> <<>>]
    ELSE IF answer.k = "not_object"
         THEN [raised |-> TRUE, findings |-> <<>>]
         ELSE found

\* kubectl.py:577-647 _scan_services: both queries are made before either
\* output is looked at; blank services output returns at once; the services
\* document is parsed, then the endpoints document (blank: no endpoints),
\* then endpoints_data.get and services_data.get are called.
scan_services_block(services, endpoints, namespace) ==
    IF services.k = "error" \/ endpoints.k = "error" \/ services.k = "empty"
       \/ services.k = "bad_json" \/ endpoints.k = "bad_json"
    THEN [raised |-> FALSE, findings |-> <<>>]
    ELSE IF endpoints.k = "not_object" \/ services.k = "not_object"
         THEN [raised |-> TRUE, findings |-> <<>>]
         ELSE [raised |-> FALSE,
               findings |-> services_unhealthy(services.items, endpoints.items,
                                               namespace, 1)]

\* kubectl.py:589-594: the queries _scan_services issues
scan_services_queries(services, namespace) ==
    IF services.k = "error"
    THEN << <<"services", namespace>> >>
    ELSE << <<"services", namespace>>, <<"endpoints", namespace>> >>

\* kubectl.py:514-523: the namespaces the loop of scan_all_namespaces runs
\* over.  The name is bound by the listing or by the except clause; blank
\* output binds nothing, and the for statement then raises UnboundLocalError.
namespaces_of(answer) ==
    IF answer.k \in {"error", "bad_json"}
    THEN [raised |-> FALSE, namespaces |-> <<"default">>]
    ELSE IF answer.k \in {"empty", "not_object"}
         THEN [raised |-> TRUE, namespaces |-> <<>>]
         ELSE [raised |-> FALSE, namespaces |-> answer.items]

Last(query, k, ek) == [query |-> query, k |-> k, ek |-> ek]

\* scan_namespace(namespace) or scan_all_namespaces() is called
InitScan ==
    /\ FixAtRest
    /\ WatchAtRest
    /\ ClassifyAtRest
    /\ ExtractAtRest
    /\ CommandAtRest
    /\ RunAtRest
    /\ StreamAtRest
    /\ SignatureAtRest
    /\ s_unhealthy = <<>> /\ s_queries = <<>> /\ s_ns_answer = "" /\ s_last = <<>>
    /\ \/ /\ s_mode = "namespace"
          /\ s_namespaces \in { <<"default">>, <<"prod">> }
          /\ s_i = 1
          /\ s_pc = "pods"
       \/ /\ s_mode = "all"
          /\ s_namespaces = <<>>
          /\ s_i = 0
          /\ s_pc = "namespaces"

\* the block that follows the block `at`: scan_namespace runs pods,
\* deployments, services, nodes (kubectl.py:452-501); scan_all_namespaces
\* runs, for each namespace, pods, services, deployments, and then nodes
\* (kubectl.py:525-573)
next_block(mode, at, i, n) ==
    IF mode = "namespace"
    THEN CASE at = "pods" -> [pc |-> "deployments", i |-> i]
           [] at = "deployments" -> [pc |-> "services", i |-> i]
           [] at = "services" -> [pc |-> "nodes", i |-> i]
           [] at = "nodes" -> [pc |-> "done", i |-> i]
    ELSE CASE at = "namespaces" ->
                IF n = 0 THEN [pc |-> "nodes", i |-> 0] ELSE [pc |-> "pods", i |-> 1]
           [] at = "pods" -> [pc |-> "services", i |-> i]
           [] at = "services" -> [pc |-> "deployments", i |-> i]
           [] at = "deployments" ->
                IF i < n THEN [pc |-> "pods", i |-> i + 1] ELSE [pc |-> "nodes", i |-> i]
           [] at = "nodes" -> [pc |-> "done", i |-> i]

\* the end of a block: its findings are appended and the next block is
\* entered, or the exception leaves the scan
Proceed(at, result, n) ==
    IF result.raised
    THEN /\ s_pc' = "raised"
         /\ UNCHANGED <<s_i, s_unhealthy>>
    ELSE /\ s_pc' = next_block(s_mode, at, s_i, n).pc
         /\ s_i' = next_block(s_mode, at, s_i, n).i
         /\ s_unhealthy' = s_unhealthy \o result.findings

\* kubectl.py:514-523
ScanListNamespaces ==
    /\ s_pc = "namespaces"
    /\ \E answer \in Answers(NamespaceListings) :
          LET r == namespaces_of(answer)
          IN  /\ s_queries' = Append(s_queries, <<"namespaces", "">>)
              /\ s_ns_answer' = answer.k
              /\ s_last' = Last("namespaces", answer.k, "")
              /\ s_namespaces' = r.namespaces
              /\ Proceed("namespaces", [raised |-> r.raised, findings |-> <<>>],
                         Len(r.namespaces))
    /\ UNCHANGED <<not_scan, s_mode>>

\* kubectl.py:453-472 and 527-546
ScanPods ==
    /\ s_pc = "pods"
    /\ \E answer \in Answers(PodListings) :
          LET namespace == s_namespaces[s_i]
              found == [raised |-> FALSE,
                        findings |-> pods_unhealthy(answer.items, namespace, 1)]
          IN  /\ s_queries' = Append(s_queries, <<"pods", namespace>>)
              /\ s_last' = Last("pods", answer.k, "")
              /\ Proceed("pods", query_block(answer, found), Len(s_namespaces))
    /\ UNCHANGED <<not_scan, s_mode, s_namespaces, s_ns_answer>>

\* kubectl.py:475-495 and 550-570
ScanDeployments ==
    /\ s_pc = "deployments"
    /\ \E answer \in Answers(DeploymentListings) :
          LET namespace == s_namespaces[s_i]
              found == deployments_unhealthy(answer.items, namespace, 1)
          IN  /\ s_queries' = Append(s_queries, <<"deployments", namespace>>)
              /\ s_last' = Last("deployments", answer.k, "")
              /\ Proceed("deployments", query_block(answer, found),
                         Len(s_namespaces))
    /\ UNCHANGED <<not_scan, s_mode, s_namespaces, s_ns_answer>>

\* kubectl.py:498 and 548: _scan_services (kubectl.py:577-647)
ScanServices ==
    /\ s_pc = "services"
    /\ \E services \in Answers(ServiceListings),
          endpoints \in Answers(ScanEndpointsListings) :
          LET namespace == s_namespaces[s_i]
          IN  /\ s_queries' = s_queries \o scan_services_queries(services, namespace)
              /\ s_last' = Last("services", services.k,
                                IF services.k = "error" THEN "" ELSE endpoints.k)
              /\ Proceed("services",
                         scan_services_block(services, endpoints, namespace),
                         Len(s_namespaces))
    /\ UNCHANGED <<not_scan, s_mode, s_namespaces, s_ns_answer>>

\* kubectl.py:501 and 573: _scan_nodes (kubectl.py:649-679)
ScanNodes ==
    /\ s_pc = "nodes"
    /\ \E answer \in Answers(NodeListings) :
          LET found == [raised |-> FALSE,
                        findings |-> nodes_unhealthy(answer.items, 1)]
          IN  /\ s_queries' = Append(s_queries, <<"nodes", "">>)
              /\ s_last' = Last("nodes", answer.k, "")
              /\ Proceed("nodes", query_block(answer, found), Len(s_namespaces))
    /\ UNCHANGED <<not_scan, s_mode, s_namespaces, s_ns_answer>>

NextScan ==
    \/ ScanListNamespaces
    \/ ScanPods
    \/ ScanDeployments
    \/ ScanServices
    \/ ScanNodes

SpecScan == InitScan /\ [][NextScan]_vars

\* ------------------------------------------------------------- extractor
\* The diagnosis is a sequence of lines; the text is the lines joined by
\* "\n".  A line is a record [kind, indent, text]:
\*   kind "fence":  three backticks followed by the text (the tag, maybe
\*                  empty)
\*   kind "plain":  indent blanks followed by the text (no backtick in it)
\*   kind "inline": the words "Use " and " here" around the text in single
\*                  backticks
MaxLines == 4

MaxCommands == 3

Line(kind, indent, text) == [kind |-> kind, indent |-> indent, text |-> text]

FenceLines == { Line("fence", 0, tag) : tag \in {"", "bash", "sh"} }

\* the texts that begin with kubectl
CommandLines ==
    {"kubectl get pods", "kubectl delete pod web",
     "kubectl rollout restart deployment/my-app -n production"}

\* the lines drawn: the fences, two command lines, one of them also
\* indented, a comment line, a prose line, a line with an inline span, a
\* blank line
DiagnosisLines ==
    FenceLines \cup
    { Line("plain", 0, "kubectl get pods"), Line("plain", 0, "kubectl delete pod web"),
      Line("plain", 2, "kubectl get pods"),
      Line("plain", 0, "# restart the pod"), Line("plain", 0, "Run this:"),
      Line("inline", 0, "kubectl get pods"), Line("plain", 0, "") }

\* str.strip (cli.py:129) of a line
strip(line) ==
    IF line.kind = "fence" THEN "<fence>" \o line.text
    ELSE IF line.kind = "inline" THEN "Use <span> here"
    ELSE line.text

\* cli.py:130: line.startswith("kubectl") of a stripped line
startswith_kubectl(text) == text \in CommandLines

\* cli.py:123 inline_pattern on one line: the stripped contents of its
\* single-backtick spans that begin with kubectl
inline_spans(line) ==
    IF line.kind = "inline" /\ startswith_kubectl(line.text)
    THEN <<line.text>> ELSE <<>>

\* \s* of code_block_pattern (cli.py:122) after the fence: the first line
\* from k on that is not blank (Len + 1 when there is none)
RECURSIVE skip_blank(_, _)
skip_blank(lines, k) ==
    IF k > Len(lines) \/ lines[k].kind # "plain" \/ lines[k].text # ""
    THEN k ELSE skip_blank(lines, k + 1)

\* the last fence line at or after position k (0 when there is none)
RECURSIVE last_fence(_, _)
last_fence(lines, k) ==
    IF k > Len(lines) THEN 0
    ELSE LET later == last_fence(lines, k + 1)
         IN  IF later # 0 THEN later
             ELSE IF lines[k].kind = "fence" THEN k ELSE 0

\* code_block_pattern (cli.py:122, with re.DOTALL) tried at the fence of
\* line i, a fence with no tag or the tag bash or sh.  After the fence, its
\* tag and white space the text must go on with kubectl: line j.  When the
\* next line begins with a fence the match ends there.  Otherwise the dot
\* also matches line ends and the match runs to the last fence of the whole
\* text.  [found, first, last, fence]: group 1 is lines first..last and the
\* match ends in the fence of line fence.
code_block_match(lines, i) ==
    LET j == skip_blank(lines, i + 1)
        none == [found |-> FALSE, first |-> 0, last |-> 0, fence |-> 0]
    IN  IF lines[i] \notin FenceLines THEN none
        ELSE IF j > Len(lines) \/ lines[j].kind # "plain"
                \/ ~startswith_kubectl(strip(lines[j])) THEN none
        ELSE IF j + 1 > Len(lines) THEN none
        ELSE IF lines[j + 1].kind = "fence"
             THEN [found |-> TRUE, first |-> j, last |-> j, fence |-> j + 1]
        ELSE LET m == last_fence(lines, j + 2)
             IN  IF m = 0 THEN none
                 ELSE [found |-> TRUE, first |-> j, last |-> m - 1, fence |-> m]

\* cli.py:128-131: the stripped lines k..last of the block that begin with
\* kubectl
RECURSIVE block_commands(_, _, _)
block_commands(lines, k, last) ==
    IF k > last THEN <<>>
    ELSE (IF startswith_kubectl(strip(lines[k])) THEN <<strip(lines[k])>> ELSE <<>>)
            \o block_commands(lines, k + 1, last)

\* cli.py:126-131: re.finditer from line i on; a match is looked for at
\* every fence, the search going on behind the end of a match
RECURSIVE code_block_commands(_, _)
code_block_commands(lines, i) ==
    IF i > Len(lines) THEN <<>>
    ELSE LET m == code_block_match(lines, i)
         IN  IF m.found
             THEN block_commands(lines, m.first, m.last)
                     \o code_block_commands(lines, m.fence + 1)
             ELSE code_block_commands(lines, i + 1)

\* cli.py:135-138: the inline spans of lines k on
RECURSIVE inline_commands(_, _)
inline_commands(lines, k) ==
    IF k > Len(lines) THEN <<>>
    ELSE inline_spans(lines[k]) \o inline_commands(lines, k + 1)

extract_kubectl_commands_inline_always(lines) ==
    code_block_commands(lines, 1) \o inline_commands(lines, 1)

RECURSIVE deduplicated(_)
deduplicated(q) ==
    IF q = <<>> THEN <<>>
    ELSE LET front == deduplicated(SubSeq(q, 1, Len(q) - 1))
         IN  IF \E k \in DOMAIN front : front[k] = q[Len(q)]
             THEN front ELSE Append(front, q[Len(q)])

extract_kubectl_commands_deduplicated(lines) ==
    LET commands_found == deduplicated(code_block_commands(lines, 1))
    IN  IF commands_found = <<>> THEN inline_commands(lines, 1) ELSE commands_found

\* cli.py:110-140
extract_kubectl_commands(lines) ==
    LET commands_found == code_block_commands(lines, 1)
    IN  IF commands_found = <<>> THEN inline_commands(lines, 1) ELSE commands_found

\* a list of commands, one per line, in a fenced bash block
extract_as_markdown(cmds) ==
    <<Line("fence", 0, "bash")>>
        \o [k \in DOMAIN cmds |-> Line("plain", 0, cmds[k])]
        \o <<Line("fence", 0, "")>>

\* the diagnosis texts drawn: every text of up to MaxLines lines, the fenced
\* blocks of up to MaxCommands commands, and two longer texts: a block of two
\* commands followed by prose and an unclosed fence, and a command block
\* between two blocks of other content
DiagnosisTexts ==
    SeqsUpTo(DiagnosisLines, MaxLines)
    \cup { extract_as_markdown(c) : c \in SeqsUpTo(CommandLines, MaxCommands) }
    \cup { extract_as_markdown(<<"kubectl get pods", "kubectl delete pod web">>)
               \o <<Line("plain", 0, "kubectl get pods"), Line("fence", 0, "")>>,
           <<Line("fence", 0, ""), Line("plain", 0, "# restart the pod"),
             Line("fence", 0, ""), Line("plain", 0, "Run this:")>>
               \o extract_as_markdown(<<"kubectl get pods">>)
               \o <<Line("fence", 0, ""), Line("plain", 0, "Run this:"),
                     Line("fence", 0, "")>> }

InitExtract ==
    /\ FixAtRest
    /\ WatchAtRest
    /\ ClassifyAtRest
    /\ ScanAtRest
    /\ CommandAtRest
    /\ RunAtRest
    /\ StreamAtRest
    /\ SignatureAtRest
    /\ e_pc = "text"
    /\ diagnosis \in DiagnosisTexts
    /\ extracted = <<>>

\* cli.py:110-140
Extract ==
    /\ e_pc = "text"
    /\ extracted' = extract_kubectl_commands(diagnosis)
    /\ e_pc' = "done"
    /\ UNCHANGED <<not_ext, diagnosis>>

NextExtract == Extract

SpecExtract == InitExtract /\ [][NextExtract]_vars

\* --------------------------------------------------------------- commands
MaxFindings == 2

\* The values of --context ("" when the option is not given).
Contexts == {"", "staging"}

\* What the kubectl process of a query does: exit status 0, a non-zero exit
\* status, subprocess.TimeoutExpired, or FileNotFoundError (no kubectl binary).
ProcessOutcomes == {"zero", "nonzero", "timed_out", "not_found"}

\* kubectl.py:107-118: the process Kubectl._run spawns for arguments a on an
\* instance whose context is ctx
run_argv(ctx, a) ==
    <<"kubectl">> \o (IF ctx # "" THEN <<"--context", ctx>> ELSE <<>>) \o a

check_cluster_access_exit_status_ignored(o) == o \in {"zero", "nonzero"}

\* kubectl.py:143-147 with kubectl.py:117-130: True on exit status 0; a
\* non-zero status is returned by _run (check=False) and gives False, a
\* timeout or a missing binary raises KubectlError and gives False
check_cluster_access(o) == o = "zero"

\* The findings a scan returns to the scan command (kubectl.py:461-467); a
\* node has no namespace.
ScanFindings ==
    { [kind |-> "pod", name |-> "web", namespace |-> "default"],
      [kind |-> "deployment", name |-> "api", namespace |-> "default"],
      [kind |-> "node", name |-> "node-1", namespace |-> ""] }

\* kubectl.py:41-50: "|".join(args)
RECURSIVE cache_key(_)
cache_key(a) ==
    IF a = <<>> THEN ""
    ELSE IF Len(a) = 1 THEN a[1]
    ELSE a[1] \o "|" \o cache_key(Tail(a))

\* kubectl.py:355-439: the queries of gather_*_diagnostics, in order; check
\* is the argument of _run, caught tells whether the query function catches
\* KubectlError (kubectl.py:164-170, 202-218, 230-234, 260-275, 303-319,
\* 347-353); the describe query is the only one that lets it out
gather_queries(r) ==
    LET Q(a, check, caught) == [args |-> a, check |-> check, caught |-> caught]
        selector == "involvedObject.name=" \o r.name
    IN  CASE r.kind = "pod" ->
               << Q(<<"describe", "pod", r.name, "-n", r.namespace>>, TRUE, FALSE),
                  Q(<<"logs", r.name, "-n", r.namespace, "--tail", "100">>,
                    FALSE, TRUE),
                  Q(<<"get", "events", "-n", r.namespace, "--field-selector",
                      selector, "--sort-by", ".lastTimestamp">>, FALSE, TRUE),
                  Q(<<"get", "pod", r.name, "-n", r.namespace, "-o", "yaml">>,
                    TRUE, TRUE) >>
          [] r.kind = "node" ->
               << Q(<<"describe", "node", r.name>>, TRUE, FALSE),
                  Q(<<"get", "events", "--all-namespaces", "--field-selector",
                      selector, "--sort-by", ".lastTimestamp">>, FALSE, TRUE) >>
          [] r.kind = "deployment" ->
               << Q(<<"describe", "deployment", r.name, "-n", r.namespace>>,
                    TRUE, FALSE),
                  Q(<<"get", "events", "-n", r.namespace, "--field-selector",
                      selector, "--sort-by", ".lastTimestamp">>, FALSE, TRUE) >>
          [] OTHER ->
               << Q(<<"describe", "service", r.name, "-n", r.namespace>>,
                    TRUE, FALSE),
                  Q(<<"get", "endpoints", r.name, "-n", r.namespace, "-o",
                      "wide">>, FALSE, TRUE) >>

\* kubectl.py:107-130, one call of _run for query q on an instance whose cache
\* holds the keys c (no entry outlives cache_ttl, 300 s, within a command): a
\* cached key is answered without a process and without the check of the exit
\* status; otherwise the process is spawned (argv), its result is stored
\* unless it timed out or kubectl is missing, and KubectlError is raised on
\* those two and, with check, on a non-zero exit status
run_query(c, ctx, use, q, o) ==
    LET key == cache_key(Tail(run_argv(ctx, q.args)))
    IN  IF use /\ key \in c
        THEN [cache |-> c, argv |-> <<>>, raised |-> FALSE]
        ELSE IF o \in {"timed_out", "not_found"}
        THEN [cache |-> c, argv |-> run_argv(ctx, q.args), raised |-> TRUE]
        ELSE [cache |-> IF use THEN c \cup {key} ELSE c,
              argv |-> run_argv(ctx, q.args),
              raised |-> q.check /\ o = "nonzero"]

\* kubectl.py:374-379, 394-397, 415-418, 436-439: the queries qs from the
\* n-th on, the process of query k doing os[k]; argv is the first process
\* spawned (<<>> when every query was answered from the cache)
RECURSIVE gather_from(_, _, _, _, _, _, _)
gather_from(qs, os, n, c, ctx, use, first) ==
    IF n > Len(qs)
    THEN [cache |-> c, argv |-> first, raised |-> FALSE]
    ELSE LET s == run_query(c, ctx, use, qs[n], os[n])
             f == IF first = <<>> THEN s.argv ELSE first
         IN  IF s.raised /\ ~qs[n].caught
             THEN [cache |-> s.cache, argv |-> f, raised |-> TRUE]
             ELSE gather_from(qs, os, n + 1, s.cache, ctx, use, f)

\* an entry of k_log
Call(what, i, argv, outcome) ==
    [what |-> what, i |-> i, argv |-> argv, outcome |-> outcome]

\* an entry of results (cli.py:708-715, 728-733)
ResultEntry(r, entry) == [kind |-> r.kind, name |-> r.name, entry |-> entry]

\* cli.py:737-738
ScanDocument(res, found) == [resources |-> res, total |-> Len(found)]

\* the variables the command classification does not touch
not_sig == <<fix_vars, watch_vars, cls_vars, scan_vars, ext_vars, cmd_vars, run_vars, stream_vars>>

InitCommand ==
    /\ invoked \in {"scan", "watch", "diagnose"}
    /\ context \in Contexts
    /\ output_format \in IF invoked = "watch" THEN {"rich"} ELSE {"rich", "json"}
    /\ auto_fix \in IF invoked = "diagnose" THEN BOOLEAN ELSE {FALSE}
    /\ k_pc = IF invoked = "diagnose" THEN "diagnostician" ELSE "probe"
    /\ k_unhealthy = <<>>
    /\ k_i = 0
    /\ results = <<>>
    /\ k_log = <<>>
    /\ k_cache = {}
    /\ k_printed = [resources |-> <<>>, total |-> -1]
    /\ exit_status = -1
    /\ FixAtRest
    /\ WatchAtRest
    /\ ClassifyAtRest
    /\ ScanAtRest
    /\ ExtractAtRest
    /\ RunAtRest
    /\ StreamAtRest
    /\ SignatureAtRest

\* cli.py:288-340, called at cli.py:488 (diagnose, before the probe) and at
\* cli.py:667 (scan, after a scan that found something): without an API key,
\* or with a model the Diagnostician rejects, typer.Exit(1)
GetDiagnostician ==
    /\ k_pc = "diagnostician"
    /\ \E ok \in BOOLEAN :
          IF ok
          THEN /\ k_pc' = IF invoked = "diagnose" THEN "probe" ELSE "loop"
               /\ k_i' = IF invoked = "diagnose" THEN k_i ELSE 1
               /\ UNCHANGED exit_status
          ELSE /\ k_pc' = "exited"
               /\ exit_status' = 1
               /\ UNCHANGED k_i
    /\ UNCHANGED <<not_cmd, invoked, context, output_format, auto_fix,
                   k_unhealthy, results, k_log, k_cache, k_printed>>

\* cli.py:437-445, called at cli.py:489, 633, 759: the probe is run through
\* _run (check=False) on the new instance, whose cache is on but in watch
\* (cli.py:487, 632, 758; --no-cache is left at its default), and, when
\* check_cluster_access is False, typer.Exit(1)
CheckCluster ==
    /\ k_pc = "probe"
    /\ \E o \in ProcessOutcomes :
          LET s == run_query(k_cache, context, invoked # "watch",
                             [args |-> <<"cluster-info">>, check |-> FALSE], o)
          IN  /\ k_log' = Append(k_log, Call("probe", 0, s.argv, o))
              /\ k_cache' = s.cache
              /\ IF check_cluster_access(o)
                 THEN /\ k_pc' = CASE invoked = "scan" -> "scan"
                                   [] invoked = "watch" -> "watch"
                                   [] OTHER -> "gather"
                      /\ UNCHANGED exit_status
                 ELSE /\ k_pc' = "exited"
                      /\ exit_status' = 1
    /\ UNCHANGED <<not_cmd, invoked, context, output_format, auto_fix,
                   k_unhealthy, k_i, results, k_printed>>

\* cli.py:636-648: the scan is run (its queries are those of SpecScan, the
\* first of them is logged); it raises on a listing it cannot read, and the
\* command ends with a traceback; with no finding the command prints and
\* returns
ScanQuery ==
    /\ k_pc = "scan"
    /\ LET argv == run_argv(context,
                     <<"get", "pods", "-n", "default", "-o", "json">>)
       IN  \/ /\ k_log' = Append(k_log, Call("scan", 0, argv, "raised"))
              /\ k_pc' = "exited"
              /\ exit_status' = 1
              /\ UNCHANGED <<k_unhealthy, k_printed>>
           \/ \E found \in UNION { [1..n -> ScanFindings] : n \in 0..MaxFindings } :
                 /\ k_log' = Append(k_log, Call("scan", 0, argv, "returned"))
                 /\ k_unhealthy' = found
                 /\ IF found = <<>>
                    THEN /\ k_printed' = IF output_format = "json"
                                         THEN ScanDocument(<<>>, <<>>)
                                         ELSE k_printed
                         /\ k_pc' = "exited"
                         /\ exit_status' = 0
                    ELSE /\ k_pc' = "diagnostician"
                         /\ UNCHANGED <<k_printed, exit_status>>
    /\ UNCHANGED <<not_cmd, invoked, context, output_format, auto_fix, k_i,
                   results, k_cache>>

\* cli.py:685-702, 726-735: the diagnostics of resource k_i are gathered, each
\* query through the cache of the instance; KubectlError is caught, recorded
\* and the loop goes on
ScanGather ==
    /\ k_pc = "loop"
    /\ k_i <= Len(k_unhealthy)
    /\ LET r == k_unhealthy[k_i]
           qs == gather_queries(r)
       IN  \E g \in { gather_from(qs, os, 1, k_cache, context, TRUE, <<>>) :
                         os \in [DOMAIN qs -> ProcessOutcomes] } :
                  /\ k_log' = Append(k_log,
                                Call("gather", k_i, g.argv,
                                     IF g.raised THEN "KubectlError" ELSE "ok"))
                  /\ k_cache' = g.cache
                  /\ IF ~g.raised
                     THEN /\ k_pc' = "diagnose"
                          /\ UNCHANGED <<k_i, results>>
                     ELSE /\ results' = IF output_format = "json"
                                        THEN Append(results, ResultEntry(r, "error"))
                                        ELSE results
                          /\ k_i' = k_i + 1
                          /\ UNCHANGED k_pc
    /\ UNCHANGED <<not_cmd, invoked, context, output_format, auto_fix,
                   k_unhealthy, k_printed, exit_status>>

ScanDiagnose_FailureEndsBatch ==
    /\ k_pc = "diagnose"
    /\ invoked = "scan"
    /\ LET r == k_unhealthy[k_i]
       IN  \E o \in {"ok", "Exception"} :
              /\ k_log' = Append(k_log, Call("diagnose", k_i, <<>>, o))
              /\ results' = IF output_format = "json"
                            THEN Append(results,
                                   ResultEntry(r, IF o = "ok" THEN "diagnosis"
                                                  ELSE "error"))
                            ELSE results
              /\ k_i' = IF o = "ok" THEN k_i + 1 ELSE Len(k_unhealthy) + 1
    /\ k_pc' = "loop"
    /\ UNCHANGED <<not_cmd, invoked, context, output_format, auto_fix,
                   k_unhealthy, k_cache, k_printed, exit_status>>

\* cli.py:704-735: the diagnosis of resource k_i is requested; an Exception is
\* caught, recorded and the loop goes on
ScanDiagnose ==
    /\ k_pc = "diagnose"
    /\ invoked = "scan"
    /\ LET r == k_unhealthy[k_i]
       IN  \E o \in {"ok", "Exception"} :
              /\ k_log' = Append(k_log, Call("diagnose", k_i, <<>>, o))
              /\ results' = IF output_format = "json"
                            THEN Append(results,
                                   ResultEntry(r, IF o = "ok" THEN "diagnosis"
                                                  ELSE "error"))
                            ELSE results
    /\ k_i' = k_i + 1
    /\ k_pc' = "loop"
    /\ UNCHANGED <<not_cmd, invoked, context, output_format, auto_fix,
                   k_unhealthy, k_cache, k_printed, exit_status>>

\* cli.py:685, 737-738: the loop is exhausted, the document is printed in
\* JSON output and scan returns
ScanEnd ==
    /\ k_pc = "loop"
    /\ k_i > Len(k_unhealthy)
    /\ k_printed' = IF output_format = "json"
                    THEN ScanDocument(results, k_unhealthy)
                    ELSE k_printed
    /\ k_pc' = "exited"
    /\ exit_status' = 0
    /\ UNCHANGED <<not_cmd, invoked, context, output_format, auto_fix,
                   k_unhealthy, k_i, results, k_log, k_cache>>

\* cli.py:769-777: watch enters its loop and runs its first scan (the loop is
\* that of SpecWatch); a scan that raises on a listing it cannot read is not
\* caught by the except KeyboardInterrupt of cli.py:845 and ends the command
\* with a traceback
WatchFirstScan ==
    /\ k_pc = "watch"
    /\ LET argv == run_argv(context,
                     <<"get", "pods", "-n", "default", "-o", "json">>)
       IN  \/ /\ k_log' = Append(k_log, Call("scan", 0, argv, "raised"))
              /\ k_pc' = "exited"
              /\ exit_status' = 1
           \/ /\ k_log' = Append(k_log, Call("scan", 0, argv, "returned"))
              /\ k_pc' = "watching"
              /\ UNCHANGED exit_status
    /\ UNCHANGED <<not_cmd, invoked, context, output_format, auto_fix,
                   k_unhealthy, k_i, results, k_cache, k_printed>>

\* cli.py:371-376 with cli.py:494: the diagnostics of the resource that
\* `kfix diagnose pod web` names are gathered; KubectlError ends the command
\* with typer.Exit(1)
DiagnoseGather ==
    /\ k_pc = "gather"
    /\ LET qs == gather_queries([kind |-> "pod", name |-> "web",
                                 namespace |-> "default"])
       IN  \E g \in { gather_from(qs, os, 1, k_cache, context, TRUE, <<>>) :
                         os \in [DOMAIN qs -> ProcessOutcomes] } :
                  /\ k_log' = Append(k_log,
                                Call("gather", 0, g.argv,
                                     IF g.raised THEN "KubectlError" ELSE "ok"))
                  /\ k_cache' = g.cache
                  /\ IF ~g.raised
                     THEN /\ k_pc' = "diagnose"
                          /\ UNCHANGED exit_status
                     ELSE /\ k_pc' = "exited"
                          /\ exit_status' = 1
    /\ UNCHANGED <<not_cmd, invoked, context, output_format, auto_fix,
                   k_unhealthy, k_i, results, k_printed>>

\* cli.py:379-434: the diagnosis is requested; an Exception ends the command
\* with typer.Exit(1); in rich output with --auto-fix the commands extracted
\* from the diagnosis are handed to apply_fixes with --yes and
\* --auto-fix-policy (cli.py:404-406), otherwise the command returns
DiagnoseAnalyze ==
    /\ k_pc = "diagnose"
    /\ invoked = "diagnose"
    /\ \E o \in {"ok", "Exception"} :
          /\ k_log' = Append(k_log, Call("diagnose", 0, <<>>, o))
          /\ IF o = "ok" /\ output_format # "json" /\ auto_fix
             THEN /\ commands' \in Batches
                  /\ auto_yes' \in BOOLEAN
                  /\ policy' \in PolicyValues
                  /\ pc' = "start"
                  /\ k_pc' = "fixing"
                  /\ UNCHANGED <<dry_run, idx, apply_all, out, exit_status>>
             ELSE /\ k_pc' = "exited"
                  /\ exit_status' = IF o = "ok" THEN 0 ELSE 1
                  /\ UNCHANGED fix_vars
    /\ UNCHANGED <<watch_vars, cls_vars, scan_vars, ext_vars, run_vars,
                   stream_vars, sig_vars, invoked, context, output_format,
                   auto_fix, k_unhealthy, k_i, results, k_cache, k_printed>>

\* cli.py:406-418: apply_fixes has returned, the command returns
DiagnoseReturn ==
    /\ k_pc = "fixing"
    /\ pc = "done"
    /\ k_pc' = "exited"
    /\ exit_status' = 0
    /\ UNCHANGED <<not_cmd, invoked, context, output_format, auto_fix,
                   k_unhealthy, k_i, results, k_log, k_cache, k_printed>>

\* the steps of the commands, and those of apply_fixes when a diagnose command
\* calls it, which
\* leaves dry_run at its default (cli.py:406)
NextCommand ==
    \/ GetDiagnostician
    \/ CheckCluster
    \/ ScanQuery
    \/ ScanGather
    \/ ScanDiagnose
    \/ ScanEnd
    \/ WatchFirstScan
    \/ DiagnoseGather
    \/ DiagnoseAnalyze
    \/ DiagnoseReturn
    \/ BeginNoCommands
    \/ BeginInvalidPolicy
    \/ BeginPolicyOff
    \/ BeginAskAll
    \/ BeginNoAsk
    \/ AnswerAll
    \/ LoopBlocked
    \/ LoopAsk
    \/ LoopNoAsk
    \/ AnswerCmdNo
    \/ AnswerCmdYes
    \/ Execute
    \/ LoopEnd

SpecCommand == InitCommand /\ [][NextCommand]_vars

\* ------------------------------------------------- command classification
MaxLexemes == 5

\* The lexemes a command is made of: words, the blank and the single quote.
Lexemes ==
    {"kubectl", "rollout", "restart", "set", "image", "resources", "delete",
     " ", "'"}

CommandTexts == UNION { [1..n -> Lexemes] : n \in 0..MaxLexemes }

InitSignature ==
    /\ g_pc = "command"
    /\ g_command \in CommandTexts
    /\ g_signature = ""
    /\ g_risky = FALSE
    /\ g_safe = FALSE
    /\ FixAtRest
    /\ WatchAtRest
    /\ ClassifyAtRest
    /\ ScanAtRest
    /\ ExtractAtRest
    /\ CommandAtRest
    /\ RunAtRest
    /\ StreamAtRest

\* cli.py:45-69: the command is given its signature and is classified
ClassifyCommand ==
    /\ g_pc = "command"
    /\ g_signature' = command_action_signature(g_command)
    /\ g_risky' = is_risky_command(g_command)
    /\ g_safe' = is_safe_auto_fix_command(g_command)
    /\ g_pc' = "done"
    /\ UNCHANGED <<not_sig, g_command>>

SpecSignature == InitSignature /\ [][ClassifyCommand]_vars

\* ------------------------------------------------------------ Kubectl._run
MaxCalls == 3

MaxClock == 3

\* kubectl.py:52-70: the entry of the key when caching is on, the key is
\* cached and the entry is younger than cache_ttl
get_cached(key) ==
    IF use_cache /\ key \in DOMAIN cache
       /\ clock - cache[key].timestamp < cache_ttl
    THEN [found |-> TRUE, returncode |-> cache[key].returncode]
    ELSE [found |-> FALSE, returncode |-> 0]

\* kubectl.py:72-84: the entry is stamped with time.time() as read at
\* kubectl.py:84, now
set_cached(key, returncode, now) ==
    IF ~use_cache THEN cache
    ELSE [k \in DOMAIN cache \cup {key} |->
            IF k = key THEN [timestamp |-> now, returncode |-> returncode]
            ELSE cache[k]]

\* what a caller of _run got: no process is spawned on a cache hit, and the
\* caller gets either a result tuple with its returncode or KubectlError
Got(a, check, spawned, raised, returncode) ==
    [args |-> a, check |-> check, spawned |-> spawned, raised |-> raised,
     returncode |-> returncode]

\* kubectl.py:27-39: a new instance; cache_ttl is counted in ticks of the clock
InitRun ==
    /\ r_pc = "ready"
    /\ use_cache \in BOOLEAN
    /\ cache_ttl \in {1, 2}
    /\ r_context \in Contexts
    /\ cache = <<>>
    /\ clock = 0
    /\ r_calls = 0
    /\ r_last = <<>>
    /\ FixAtRest
    /\ WatchAtRest
    /\ ClassifyAtRest
    /\ ScanAtRest
    /\ ExtractAtRest
    /\ CommandAtRest
    /\ StreamAtRest
    /\ SignatureAtRest

\* kubectl.py:90-130: one call of _run, with one of two argument lists.  The
\* clock is read by _get_cached (kubectl.py:67) when the call begins; when a
\* process is spawned, it takes d ticks (subprocess.run, kubectl.py:118),
\* and _set_cached (kubectl.py:84) reads the clock after it.
Run ==
    /\ r_pc = "ready"
    /\ r_calls < MaxCalls
    /\ \E a \in { <<"describe", "pod", "web", "-n", "default">>,
                 <<"get", "pods", "-n", "default", "-o", "json">> },
          check \in BOOLEAN, o \in ProcessOutcomes, d \in 0..(MaxClock - clock) :
          LET full == Tail(run_argv(r_context, a))
              key == cache_key(full)
              cached_result == get_cached(key)
              returncode == IF o = "zero" THEN 0 ELSE 1
          IN  IF cached_result.found
              THEN /\ r_last' = Got(full, check, FALSE, FALSE,
                                    cached_result.returncode)
                   /\ UNCHANGED <<cache, clock>>
              ELSE IF o \in {"timed_out", "not_found"}
              THEN /\ r_last' = Got(full, check, TRUE, TRUE, -1)
                   /\ clock' = clock + d
                   /\ UNCHANGED cache
              ELSE /\ cache' = set_cached(key, returncode, clock + d)
                   /\ clock' = clock + d
                   /\ r_last' = Got(full, check, TRUE,
                                    check /\ returncode # 0, returncode)
    /\ r_calls' = r_calls + 1
    /\ UNCHANGED <<not_run, r_pc, use_cache, cache_ttl, r_context>>

\* kubectl.py:86-88: clear_cache
ClearCache ==
    /\ r_pc = "ready"
    /\ DOMAIN cache # {}
    /\ cache' = <<>>
    /\ UNCHANGED <<not_run, r_pc, use_cache, cache_ttl, r_context, clock,
                   r_calls, r_last>>

\* time.time() moves on between two calls
Tick ==
    /\ r_pc = "ready"
    /\ clock < MaxClock
    /\ clock' = clock + 1
    /\ UNCHANGED <<not_run, r_pc, use_cache, cache_ttl, r_context, cache,
                   r_calls, r_last>>

NextRun == Run \/ ClearCache \/ Tick

SpecRun == InitRun /\ [][NextRun]_vars

\* ------------------------------------------------------- stream_diagnosis
MaxChunks == 3

\* cli.py:72-96: the stream yields up to MaxChunks chunks
InitStream ==
    /\ st_pc = "loop"
    /\ stream \in UNION { [1..n -> {"kubectl ", "get ", "pods"}] :
                          n \in 0..MaxChunks }
    /\ st_taken = 0
    /\ full_text = ""
    /\ rendered = <<>>
    /\ st_result = ""
    /\ FixAtRest
    /\ WatchAtRest
    /\ ClassifyAtRest
    /\ ScanAtRest
    /\ ExtractAtRest
    /\ CommandAtRest
    /\ RunAtRest
    /\ SignatureAtRest

StreamChunk_Prepends ==
    /\ st_pc = "loop"
    /\ st_taken < Len(stream)
    /\ LET chunk == stream[st_taken + 1]
       IN  /\ full_text' = chunk \o full_text
           /\ rendered' = Append(rendered, chunk \o full_text)
    /\ st_taken' = st_taken + 1
    /\ UNCHANGED <<not_stream, st_pc, stream, st_result>>

\* cli.py:97-105: the next chunk is taken, appended to full_text, and
\* full_text is handed to live.update
StreamChunk ==
    /\ st_pc = "loop"
    /\ st_taken < Len(stream)
    /\ LET chunk == stream[st_taken + 1]
       IN  /\ full_text' = full_text \o chunk
           /\ rendered' = Append(rendered, full_text \o chunk)
    /\ st_taken' = st_taken + 1
    /\ UNCHANGED <<not_stream, st_pc, stream, st_result>>

\* cli.py:97: the stream raises instead of yielding (ai.py:257-280); the
\* exception leaves stream_diagnosis
StreamRaises ==
    /\ st_pc = "loop"
    /\ st_pc' = "raised"
    /\ UNCHANGED <<not_stream, stream, st_taken, full_text, rendered,
                   st_result>>

\* cli.py:97, 107: the stream is exhausted, full_text is returned
StreamReturn ==
    /\ st_pc = "loop"
    /\ st_taken = Len(stream)
    /\ st_result' = full_text
    /\ st_pc' = "returned"
    /\ UNCHANGED <<not_stream, stream, st_taken, full_text, rendered>>

NextStream == StreamChunk \/ StreamRaises \/ StreamReturn

SpecStream == InitStream /\ [][NextStream]_vars

\* ------------------------------------------------------------ properties
PromptKinds == {"prompt_all", "prompt_execute", "prompt_destructive"}

CmdPromptKinds == {"prompt_execute", "prompt_destructive"}

OutcomeKinds == {"ok", "failed", "timed_out", "exception"}

\* positions of `out` that hold an event of one of the kinds
At(kinds) == {k \in DOMAIN out : out[k].ev \in kinds}

\* positions of `out` that hold an event of one of the kinds for command i
AtFor(kinds, i) == {k \in At(kinds) : out[k].i = i}

SafeSignatures ==
    {"annotate", "apply", "label", "patch", "rollout restart", "scale",
     "set image", "set resources"}

RiskySignatures == {"delete", "drain", "replace"}

HasRiskySignature(i) == command_action_signature(commands[i]) \in RiskySignatures

HasSafeSignature(i) == command_action_signature(commands[i]) \in SafeSignatures

\* the run went past the early returns of apply_fixes and is over
LoopDone == pc = "done" /\ policy \in {"review", "safe"} /\ ~dry_run /\ commands # <<>>

\* C1: under policy safe, whatever the batch, the yes-to-all flag and the
\* answers, a command is announced for execution or handed to subprocess.run
\* only if its signature is in the safe allowlist; a command whose signature
\* is delete, drain or replace never is.
C1_SafeExecutesOnlyAllowlisted ==
    policy = "safe" =>
        \A k \in At({"executing", "run"}) :
            /\ HasSafeSignature(out[k].i)
            /\ ~HasRiskySignature(out[k].i)

\* a safe run that is over, on a batch holding a risky command and an
\* allowlisted one, where the allowlisted one was executed
C1_Witness ==
    /\ policy = "safe" /\ pc = "done"
    /\ \E i, j \in DOMAIN commands :
          /\ HasRiskySignature(i)
          /\ HasSafeSignature(j)
          /\ AtFor({"run"}, j) # {}
          /\ AtFor({"blocked"}, i) # {}

\* C2: under policy review without yes-to-all, a risky command is executed
\* only right after a prompt issued for that command alone was answered yes,
\* also when the whole batch was approved; that prompt is the one that says
\* the command may be destructive, and the command is prompted exactly once.
C2_RiskyAlwaysConfirmedAlone ==
    (policy = "review" /\ ~auto_yes) =>
        /\ \A k \in At({"executing"}) :
              HasRiskySignature(out[k].i) =>
                 /\ k > 2
                 /\ out[k - 1] = Ev("answer_yes", out[k].i, <<>>)
                 /\ out[k - 2] = Ev("prompt_destructive", out[k].i, <<>>)
        /\ \A i \in DOMAIN commands :
              HasRiskySignature(i) =>
                 /\ Cardinality(AtFor(CmdPromptKinds, i)) <= 1
                 /\ AtFor({"prompt_execute"}, i) = {}
                 /\ LoopDone => Cardinality(AtFor({"prompt_destructive"}, i)) = 1

\* a review run that is over, where the whole batch was approved and a risky
\* command of it was executed after its own prompt
C2_Witness ==
    /\ policy = "review" /\ ~auto_yes /\ pc = "done" /\ apply_all
    /\ \E i \in DOMAIN commands :
          /\ HasRiskySignature(i)
          /\ AtFor({"prompt_destructive"}, i) # {}
          /\ AtFor({"run"}, i) # {}

\* C3: under policy review without yes-to-all (and not in dry-run mode): for
\* a batch of more than one command exactly one whole-batch prompt is asked,
\* before any command is prompted or executed; once it is approved every
\* non-risky command executes with no prompt of its own; once it is declined
\* every command is prompted on its own and runs only on a yes; a batch of
\* one command gets no whole-batch prompt and is prompted on its own.
C3_ReviewBatchApproval ==
    (policy = "review" /\ ~auto_yes /\ ~dry_run /\ pc # "start") =>
        LET n == Len(commands)
            all == At({"prompt_all"})
            approved == \E k \in all : k < Len(out) /\ out[k + 1].ev = "answer_yes"
            declined == \E k \in all : k < Len(out) /\ out[k + 1].ev = "answer_no"
        IN  /\ n > 1 =>
                /\ Cardinality(all) = 1
                /\ \A k \in At(CmdPromptKinds \cup {"executing", "run"}) :
                      \A a \in all : a < k /\ (approved \/ declined)
            /\ (n > 1 /\ approved) =>
                \A i \in DOMAIN commands :
                    ~HasRiskySignature(i) =>
                       /\ AtFor(CmdPromptKinds, i) = {}
                       /\ pc = "done" => Cardinality(AtFor({"executing"}, i)) = 1
            /\ (n > 1 /\ declined) =>
                \A i \in DOMAIN commands :
                    /\ pc = "done" => Cardinality(AtFor(CmdPromptKinds, i)) = 1
                    /\ \A k \in AtFor({"executing"}, i) :
                          k > 1 /\ out[k - 1] = Ev("answer_yes", i, <<>>)
                    /\ pc = "done" =>
                          (AtFor({"executing"}, i) # {}
                             <=> AtFor({"answer_yes"}, i) # {})
            /\ n = 1 =>
                /\ all = {}
                /\ pc = "done" => Cardinality(AtFor(CmdPromptKinds, 1)) = 1
                /\ \A k \in AtFor({"executing"}, 1) :
                      k > 1 /\ out[k - 1] = Ev("answer_yes", 1, <<>>)

\* a review run that is over on a batch of two commands whose whole-batch
\* prompt was declined, with one command accepted and one refused
C3_Witness ==
    /\ policy = "review" /\ ~auto_yes /\ ~dry_run /\ pc = "done"
    /\ Len(commands) = 2
    /\ ~apply_all
    /\ At({"prompt_all"}) # {}
    /\ At({"skipped"}) # {}
    /\ At({"run"}) # {}

\* C4: with yes-to-all set no confirmation prompt is issued, whole-batch or
\* per-command, risky commands included, under every policy; the safe filter
\* still decides what runs under safe, and nothing runs under off.
C4_YesToAllNeverPrompts ==
    auto_yes =>
        /\ At(PromptKinds \cup {"answer_yes", "answer_no"}) = {}
        /\ policy = "off" => At({"executing", "run"}) = {}
        /\ policy = "safe" =>
              /\ \A k \in At({"executing", "run"}) : HasSafeSignature(out[k].i)
              /\ LoopDone =>
                    \A i \in DOMAIN commands :
                        IF HasSafeSignature(i)
                        THEN Cardinality(AtFor({"executing"}, i)) = 1
                        ELSE AtFor({"blocked"}, i) # {}
        /\ (policy = "review" /\ LoopDone) =>
              \A i \in DOMAIN commands : Cardinality(AtFor({"executing"}, i)) = 1

\* a yes-to-all review run that is over and has run a risky command
C4_Witness ==
    /\ auto_yes /\ pc = "done" /\ policy = "review"
    /\ \E i \in DOMAIN commands : HasRiskySignature(i) /\ AtFor({"run"}, i) # {}

\* C5: under policy off, for a non-empty batch and either value of the
\* yes-to-all and dry-run flags, the run shows every command of the batch,
\* issues no prompt and executes nothing.
C5_PolicyOffExecutesNothing ==
    (policy = "off" /\ commands # <<>>) =>
        /\ At(PromptKinds \cup {"executing", "run"}) = {}
        /\ pc \in {"start", "done"}
        /\ pc = "done" =>
              \A i \in DOMAIN commands :
                  \E k \in DOMAIN out : out[k] = Ev("list_item", i, commands[i])

\* an off run that is over, with yes-to-all set, on a batch of two commands
C5_Witness ==
    /\ policy = "off" /\ pc = "done" /\ auto_yes /\ Len(commands) = 2
    /\ At({"list_item"}) # {}

\* C6: for a policy value outside {off, review, safe} and any batch, the
\* empty one included, the run reports the invalid policy, issues no prompt
\* and executes nothing.
C6_InvalidPolicyAlwaysReported ==
    policy \notin {"off", "review", "safe"} =>
        /\ At(PromptKinds \cup {"executing", "run"}) = {}
        /\ pc = "done" => At({"invalid_policy"}) # {}

\* C7: in dry-run mode, for every policy value and either value of the
\* yes-to-all flag, no prompt is issued and nothing is executed.
C7_DryRunNeverPromptsNorExecutes ==
    dry_run =>
        /\ At(PromptKinds \cup {"answer_yes", "answer_no"}) = {}
        /\ At({"executing", "run"}) = {}
        /\ pc \in {"start", "done"}

\* a dry run that is over, under review without yes-to-all, on two commands
C7_Witness ==
    /\ dry_run /\ pc = "done" /\ policy = "review" /\ ~auto_yes
    /\ Len(commands) = 2
    /\ At({"dry_run"}) # {}

\* the commands announced for execution, as batch positions, in order
Attempted ==
    LET ex == SelectSeq(out, LAMBDA e : e.ev = "executing")
    IN  [k \in 1..Len(ex) |-> ex[k].i]

\* the batch positions neither blocked by the safe policy nor declined
ApprovedPositions ==
    SelectSeq([i \in 1..Len(commands) |-> i],
              LAMBDA i : /\ ~(policy = "safe" /\ ~HasSafeSignature(i))
                         /\ AtFor({"answer_no"}, i) = {})

\* C8: the commands attempted are exactly the approved ones (not blocked,
\* not declined), in batch order, each once and never retried; whatever the
\* outcome of a command (exit status, timeout, exception) the loop goes on
\* to the next command.
C8_AttemptsAreApprovedInOrder ==
    /\ LoopDone => Attempted = ApprovedPositions /\ idx = Len(commands) + 1
    /\ \A k \in At({"executing"}) :
          /\ Cardinality(AtFor({"executing"}, out[k].i)) = 1
          /\ Cardinality(AtFor({"run"}, out[k].i)) <= 1
          /\ Cardinality(AtFor(OutcomeKinds, out[k].i)) = 1
    /\ (out # <<>> /\ out[Len(out)].ev \in OutcomeKinds) =>
          /\ idx = out[Len(out)].i + 1
          /\ pc = "done" => out[Len(out)].i = Len(commands)

\* a run that is over on two commands: the first timed out, the second
\* raised, and both were attempted
C8_Witness ==
    /\ LoopDone /\ Len(commands) = 2
    /\ AtFor({"timed_out"}, 1) # {}
    /\ AtFor({"exception"}, 2) # {}
    /\ Attempted = <<1, 2>>

\* C9: every command executed was shown in the candidate list, with the
\* very text that is executed, before the first prompt and before the first
\* execution of the batch.
C9_ShownBeforeRun ==
    LET acts == At(PromptKinds \cup {"executing", "run"})
        Shown(i, text) ==
            \E j \in DOMAIN out :
                /\ out[j] = Ev("list_item", i, text)
                /\ \A a \in acts : j < a
    IN  /\ \A k \in At({"executing"}) : Shown(out[k].i, out[k].cmd)
        /\ \A k \in At({"run"}) :
              \E text \in CommandCatalogue :
                  /\ Shown(out[k].i, text)
                  /\ shlex_split(text).ok
                  /\ shlex_split(text).parts = out[k].cmd

\* a run that is over where the last command of a batch of two was run
\* after a prompt
C9_Witness ==
    /\ pc = "done" /\ Len(commands) = 2
    /\ AtFor({"run"}, 2) # {}
    /\ AtFor(CmdPromptKinds, 2) # {}

\* C10: under policy safe a command that is not safe-eligible gets no prompt
\* on its behalf; a batch with no safe-eligible command gets no prompt at all
\* and executes nothing; and the whole-batch prompt of review is asked for
\* the eligible commands only, that is when more than one is eligible.
C10_SafeSkipsWithoutAnyPrompt ==
    policy = "safe" =>
        LET eligible == {i \in DOMAIN commands : HasSafeSignature(i)}
        IN  /\ \A i \in DOMAIN commands \ eligible : AtFor(CmdPromptKinds, i) = {}
            /\ eligible = {} => At(PromptKinds \cup {"executing", "run"}) = {}
            /\ At({"prompt_all"}) # {} => Cardinality(eligible) > 1

\* C11: at every watch cycle after the first, with P the identities found by
\* the cycle just before and C those found by this cycle, new = C \ P and
\* resolved = P \ C, so the two are disjoint and new does not meet P; an
\* identity in both is neither new nor resolved (nor flagged) whatever its
\* status and reason; after each cycle the snapshot kept is C.
C11_DiffAgainstPreviousCycle ==
    LET n == Len(w_found) IN
    /\ n >= 1 => known_keys = w_found[n]
    /\ n >= 2 =>
          LET P == w_found[n - 1]
              C == w_found[n]
          IN  /\ new_keys = { k \in C : k \notin P }
              /\ resolved_keys = { k \in P : k \notin C }
              /\ new_keys \cap resolved_keys = {}
              /\ new_keys \cap P = {}
              /\ \A k \in P \cap C : k \notin new_keys /\ k \notin resolved_keys
              /\ \A r \in DOMAIN w_rows :
                    w_rows[r].flagged <=> w_rows[r].key \notin P

\* three cycles: a pod found, then gone (resolved), then found again with
\* another status and reported new again
C11_Witness ==
    /\ Len(w_found) = 3
    /\ <<"pod", "web", "default">> \in w_found[1]
    /\ <<"pod", "web", "default">> \notin w_found[2]
    /\ <<"pod", "web", "default">> \in new_keys
    /\ \E r \in DOMAIN w_rows : w_rows[r].flagged /\ w_rows[r].status = "Failed"
    /\ w_counts.new = 1

\* C12: on the first cycle only the table is shown: no row is flagged as new
\* and no count of new or resolved issues is printed.
C12_FirstCycleUnflagged ==
    Len(w_found) = 1 =>
        /\ \A r \in DOMAIN w_rows : ~w_rows[r].flagged
        /\ w_counts.new = -1
        /\ w_counts.resolved = -1

\* C13: the watch loop ends only on the operator's interrupt, and the
\* interrupt is taken at a cycle boundary, in the sleep: one that arrives
\* while a cluster query is in flight does not end that query.
C13_InterruptOnlyInSleep ==
    /\ w_pc # "crashed"
    /\ w_pc = "stopped" => w_stopped_in = "sleep"

\* C14: scan_namespace and scan_all_namespaces never raise, whatever each
\* cluster query gives (an error, blank or unparseable output, a document of
\* an unexpected shape): the scan always comes to return its list.
C14_ScanNeverRaises == s_pc # "raised"

\* C15: in all-namespaces mode, when the namespace query fails (it raises a
\* cluster-query error, gives unparseable JSON, or exits non-zero with no
\* output) the scan goes on with the namespace list ["default"]: it queries
\* the pods of "default" and, when it returns, has queried the nodes.
C15_EnumerationFailureFallsBackToDefault ==
    (s_mode = "all" /\ s_ns_answer \in {"error", "bad_json", "empty"}) =>
        /\ s_namespaces = <<"default">>
        /\ s_last.query = "namespaces" => s_pc = "pods"
        /\ s_pc = "done" =>
              /\ \E k \in DOMAIN s_queries : s_queries[k] = <<"pods", "default">>
              /\ \E k \in DOMAIN s_queries : s_queries[k] = <<"nodes", "">>

\* place of a kind in the order the claim gives
C16_Rank(kind) ==
    CASE kind = "pod" -> 1 [] kind = "deployment" -> 2 [] kind = "service" -> 3
      [] kind = "node" -> 4

\* C16: in both modes the list returned holds, for each namespace in listing
\* order, its pod findings, then its deployment findings, then its service
\* findings; the nodes are queried once per scan and their findings come
\* last.  (Stated for namespace listings without repeated names.)
C16_PodsDeploymentsServicesThenNodes ==
    (/\ s_pc = "done"
     /\ \A i, j \in DOMAIN s_namespaces :
           s_namespaces[i] = s_namespaces[j] => i = j) =>
        LET place(r) == IF r.kind = "node" THEN Len(s_namespaces) + 1
                        ELSE CHOOSE i \in DOMAIN s_namespaces :
                                s_namespaces[i] = r.namespace
        IN  /\ \A a, b \in DOMAIN s_unhealthy :
                  a < b =>
                     \/ place(s_unhealthy[a]) < place(s_unhealthy[b])
                     \/ /\ place(s_unhealthy[a]) = place(s_unhealthy[b])
                        /\ C16_Rank(s_unhealthy[a].kind) <= C16_Rank(s_unhealthy[b].kind)
            /\ Cardinality({ k \in DOMAIN s_queries :
                               s_queries[k] = <<"nodes", "">> }) = 1

\* C17: the list returned by a scan never holds two records of the same
\* identity (kind, name, namespace).
C17_NoTwoFindingsShareIdentity ==
    s_pc = "done" =>
        \A a, b \in DOMAIN s_unhealthy :
            Key(s_unhealthy[a]) = Key(s_unhealthy[b]) => a = b

\* the classification of an entry of the kind is over
Classified(kind) == c_pc = "done" /\ c_kind = kind

\* the reason strings of a container status entry, waiting before terminated
C18_ReasonsOf(c) ==
    (IF c.waiting \notin {NO_STATE, NO_REASON} THEN <<c.waiting>> ELSE <<>>) \o
    (IF c.terminated \notin {NO_STATE, NO_REASON} THEN <<c.terminated>> ELSE <<>>)

\* the reason as the claim words it: scanning the container statuses in
\* array order, the first waiting.reason or else terminated.reason that is
\* present, else status.reason, else "Unknown"
RECURSIVE C18_ClaimedReason(_, _)
C18_ClaimedReason(pod, k) ==
    IF k > Len(pod.cs)
    THEN IF pod.reason = ABSENT THEN "Unknown" ELSE pod.reason
    ELSE IF C18_ReasonsOf(pod.cs[k]) # <<>>
         THEN C18_ReasonsOf(pod.cs[k])[1]
         ELSE C18_ClaimedReason(pod, k + 1)

\* C18 as worded: a pod entry yields a finding iff its phase is neither
\* Running nor Succeeded, and the reason is the first container's
\* waiting.reason if present, else its terminated.reason if present, else
\* status.reason, else "Unknown".
C18_ReasonAsClaimed ==
    Classified("pod") =>
        /\ c_out.findings # <<>> <=> c_in.phase \notin {"Running", "Succeeded"}
        /\ c_out.findings # <<>> =>
              c_out.findings[1].reason = C18_ClaimedReason(c_in, 1)

\* decimal text of a small number
C19_Dec(n) ==
    CASE n = 0 -> "0" [] n = 1 -> "1" [] n = 2 -> "2" [] n = 3 -> "3"
      [] n = 4 -> "4" [] n = 5 -> "5" [] n = 6 -> "6" [] n = 7 -> "7"
      [] n = 8 -> "8" [] n = 9 -> "9"

\* C19: a deployment entry (spec.replicas a number) yields a finding iff
\* available < desired, available being status.availableReplicas with
\* missing or null read as 0; the finding has status
\* "<available>/<desired> available" and reason "Insufficient replicas".
C19_DeploymentInsufficientReplicas ==
    (Classified("deployment") /\ c_in.replicas.t = "int") =>
        LET desired == c_in.replicas.n
            available == IF c_in.available.t \in {"absent", "null"}
                         THEN 0 ELSE c_in.available.n
        IN  /\ ~c_out.raised
            /\ c_out.findings # <<>> <=> available < desired
            /\ Len(c_out.findings) <= 1
            /\ c_out.findings # <<>> =>
                  /\ c_out.findings[1].kind = "deployment"
                  /\ c_out.findings[1].name = c_in.name
                  /\ c_out.findings[1].status =
                        C19_Dec(available) \o "/" \o C19_Dec(desired) \o " available"
                  /\ c_out.findings[1].reason = "Insufficient replicas"

\* a deployment that wants two replicas and reports a null availableReplicas
C19_Witness ==
    /\ Classified("deployment")
    /\ c_in.replicas = Num(2) /\ c_in.available = NullNum
    /\ c_out.findings # <<>>
    /\ c_out.findings[1].status = "0/2 available"

\* C20: a service entry yields a finding (reason "No ready endpoints") iff it
\* has a non-empty selector, its type is not ExternalName, and the Endpoints
\* object of its name has no subset with a ready address, a missing
\* Endpoints object counting as none.
C20_ServiceWithoutReadyEndpoints ==
    Classified("service") =>
        LET svc == c_in.service
            eps == c_in.endpoints
            name == IF svc.name = ABSENT THEN "unknown" ELSE svc.name
            ready == \E e \in DOMAIN eps :
                        /\ eps[e].name = name
                        /\ \E u \in DOMAIN eps[e].subsets :
                              eps[e].subsets[u].addresses >= 1
        IN  /\ c_out.findings # <<>> <=>
                  /\ svc.selector \notin {ABSENT, "<empty>"}
                  /\ svc.type # "ExternalName"
                  /\ ~ready
            /\ Len(c_out.findings) <= 1
            /\ c_out.findings # <<>> =>
                  /\ c_out.findings[1].kind = "service"
                  /\ c_out.findings[1].name = name
                  /\ c_out.findings[1].reason = "No ready endpoints"

\* a selector service whose Endpoints object lists, after the object of
\* another service, two subsets that hold only addresses that are not ready
C20_Witness ==
    /\ Classified("service")
    /\ c_in.service = [name |-> "web", type |-> ABSENT, selector |-> "app=web"]
    /\ Len(c_in.endpoints) = 2
    /\ c_in.endpoints[2].name = "web"
    /\ Len(c_in.endpoints[2].subsets) = 2
    /\ \A u \in DOMAIN c_in.endpoints[2].subsets :
          c_in.endpoints[2].subsets[u] = [addresses |-> 0, notReadyAddresses |-> 1]
    /\ c_out.findings # <<>>

\* C21: a node entry yields a finding iff none of its conditions of type
\* Ready has status "True", for any number and order of conditions; the
\* finding's reason is the reason of a Ready condition, or "Unknown" when
\* there is no such condition or it has no reason.
C21_NodeNotReadyIffNoReadyTrue ==
    Classified("node") =>
        LET conditions == c_in.conditions
            Ready == { k \in DOMAIN conditions : conditions[k].type = "Ready" }
        IN  /\ c_out.findings # <<>> <=>
                  ~ \E k \in Ready : conditions[k].status = "True"
            /\ c_out.findings # <<>> =>
                  \/ /\ Ready = {}
                     /\ c_out.findings[1].reason = "Unknown"
                  \/ \E k \in Ready :
                        c_out.findings[1].reason =
                            IF conditions[k].reason = ABSENT
                            THEN "Unknown" ELSE conditions[k].reason

\* the extraction is over
Extracted == e_pc = "done"

\* the next fence line at or after position k (0 when there is none)
RECURSIVE C22_NextFence(_, _)
C22_NextFence(lines, k) ==
    IF k > Len(lines) THEN 0
    ELSE IF lines[k].kind = "fence" THEN k
    ELSE C22_NextFence(lines, k + 1)

\* the command lines of the fenced blocks of the text from line k on, a
\* block being opened by a fence (no tag, bash or sh) and closed by the next
\* fence; lines outside the blocks, and behind a fence that is never
\* closed, are left out
RECURSIVE C22_LinesOfFencedBlocks(_, _)
C22_LinesOfFencedBlocks(lines, k) ==
    IF k > Len(lines) THEN <<>>
    ELSE IF lines[k] \notin FenceLines THEN C22_LinesOfFencedBlocks(lines, k + 1)
    ELSE LET close == C22_NextFence(lines, k + 1)
         IN  IF close = 0 THEN <<>>
             ELSE block_commands(lines, k + 1, close - 1)
                     \o C22_LinesOfFencedBlocks(lines, close + 1)

\* every fence of the text from line k on opens a block that a later fence
\* without a tag closes
RECURSIVE C22_WellFenced(_, _)
C22_WellFenced(lines, k) ==
    IF k > Len(lines) THEN TRUE
    ELSE IF lines[k].kind # "fence" THEN C22_WellFenced(lines, k + 1)
    ELSE LET close == C22_NextFence(lines, k + 1)
         IN  /\ lines[k] \in FenceLines
             /\ close # 0
             /\ lines[close].text = ""
             /\ C22_WellFenced(lines, close + 1)

\* C22: for every fenced block of the diagnosis (no tag, bash or sh) the
\* fenced-block step gives every line of the block that begins with kubectl,
\* wherever it is in the block, in the order of the text and with
\* duplicates; it gives no line that is outside every block.  (Stated for
\* texts in which every fence opened is closed.)
C22_EveryCommandLineOfEveryBlock ==
    (Extracted /\ C22_WellFenced(diagnosis, 1)) =>
        /\ code_block_commands(diagnosis, 1) = C22_LinesOfFencedBlocks(diagnosis, 1)
        /\ C22_LinesOfFencedBlocks(diagnosis, 1) # <<>> =>
              extracted = C22_LinesOfFencedBlocks(diagnosis, 1)

\* C23: the inline spans that begin with kubectl are returned iff the
\* fenced-block step gave no command; when it gave one, they are left out;
\* when neither gives a command the list returned is empty.
C23_InlineOnlyWhenNoFencedCommand ==
    Extracted =>
        LET fenced == code_block_commands(diagnosis, 1)
            inline == SelectSeq(diagnosis, LAMBDA l : l.kind = "inline")
            spans == [k \in DOMAIN inline |-> inline[k].text]
        IN  /\ fenced # <<>> => extracted = fenced
            /\ fenced = <<>> => extracted = spans
            /\ (fenced = <<>> /\ spans = <<>>) => extracted = <<>>

\* a fenced block with a command, followed by a line with an inline span:
\* only the command of the block is returned
C23_Witness ==
    /\ Extracted
    /\ diagnosis = <<Line("fence", 0, "bash"), Line("plain", 0, "kubectl delete pod web"),
                     Line("fence", 0, ""), Line("inline", 0, "kubectl get pods")>>
    /\ extracted = <<"kubectl delete pod web">>

\* C24: round trip: a non-empty list of one-line kubectl commands, put one
\* per line in a fenced bash block, is extracted as that same list, in the
\* same order and with its duplicates.
C24_RoundTrip ==
    \A cmds \in SeqsUpTo(CommandLines, MaxCommands) \ {<<>>} :
        (Extracted /\ diagnosis = extract_as_markdown(cmds)) => extracted = cmds

\* a list of three commands, the first and the last the same
C24_Witness ==
    /\ Extracted
    /\ diagnosis = extract_as_markdown(<<"kubectl get pods", "kubectl delete pod web",
                                        "kubectl get pods">>)
    /\ extracted = <<"kubectl get pods", "kubectl delete pod web", "kubectl get pods">>

\* the calls of one sort logged so far, in order
CallsOf(what) == SelectSeq(k_log, LAMBDA c : c.what = what)

\* the scan command has entered its diagnosis loop
ScanLoopEntered == invoked = "scan" /\ k_i >= 1

\* resource j of the scan failed: its diagnostics could not be gathered or
\* it could not be diagnosed
C25_Failed(j) ==
    \E n \in DOMAIN k_log :
       /\ k_log[n].i = j
       /\ k_log[n].what \in {"gather", "diagnose"}
       /\ k_log[n].outcome # "ok"

\* C25: in scan mode a failure while gathering diagnostics for, or diagnosing,
\* one unhealthy resource is recorded for that resource only and the batch
\* continues: the diagnostics of the resources are gathered one after the
\* other in scan order, each once, whatever happened to the resources before,
\* and each resource whose diagnostics were gathered is diagnosed; in JSON
\* output the results hold one entry per resource handled, in scan order, an
\* error entry exactly for the resources that failed; when the command ends
\* the document printed holds one entry per finding, its total is the number
\* of findings, and the exit status is 0.
C25_FailureIsRecordedAndBatchContinues ==
    ScanLoopEntered =>
       LET handled == IF k_pc = "diagnose" THEN k_i ELSE k_i - 1
           gathers == CallsOf("gather")
           requests == CallsOf("diagnose")
           gathered_ok == SelectSeq(gathers, LAMBDA c : c.outcome = "ok")
       IN  /\ Len(gathers) = handled
           /\ \A j \in DOMAIN gathers :
                 /\ gathers[j].i = j
                 /\ \/ gathers[j].argv = <<>>
                    \/ \E n \in DOMAIN gather_queries(k_unhealthy[j]) :
                          gathers[j].argv =
                             run_argv(context, gather_queries(k_unhealthy[j])[n].args)
           /\ Len(requests) = IF k_pc = "diagnose" THEN Len(gathered_ok) - 1
                              ELSE Len(gathered_ok)
           /\ \A j \in DOMAIN requests : requests[j].i = gathered_ok[j].i
           /\ output_format = "json" =>
                 /\ Len(results) = k_i - 1
                 /\ \A j \in DOMAIN results :
                       /\ results[j].kind = k_unhealthy[j].kind
                       /\ results[j].name = k_unhealthy[j].name
                       /\ results[j].entry =
                             IF C25_Failed(j) THEN "error" ELSE "diagnosis"
           /\ k_pc = "exited" =>
                 /\ exit_status = 0
                 /\ k_i = Len(k_unhealthy) + 1
                 /\ output_format = "json" =>
                       /\ k_printed.total = Len(k_unhealthy)
                       /\ Len(k_printed.resources) = Len(k_unhealthy)
                       /\ k_printed.resources = results

\* a scan of two findings in JSON output has ended: the first resource could
\* not be diagnosed, the second was
C25_Witness ==
    /\ ScanLoopEntered
    /\ k_pc = "exited"
    /\ output_format = "json"
    /\ Len(k_unhealthy) = 2
    /\ \E n \in DOMAIN k_log :
          /\ k_log[n].what = "diagnose"
          /\ k_log[n].i = 1
          /\ k_log[n].outcome = "Exception"
    /\ k_printed.resources[1].entry = "error"
    /\ k_printed.resources[2].entry = "diagnosis"

\* the positions of the failed probes in k_log
C26_FailedProbes ==
    { n \in DOMAIN k_log :
         k_log[n].what = "probe" /\ k_log[n].outcome # "zero" }

\* the remediation commands run so far
RunEvents == SelectSeq(out, LAMBDA e : e.ev = "run")

\* the scan of a scan command has returned no finding
C26_ScanFoundNothing ==
    /\ invoked = "scan"
    /\ k_unhealthy = <<>>
    /\ \E n \in DOMAIN k_log :
          k_log[n].what = "scan" /\ k_log[n].outcome = "returned"

\* C26: for scan, watch and diagnose, when the reachability probe fails
\* (non-zero exit status, timeout or missing binary) the command ends with
\* exit status 1 and nothing is issued after the probe: no scan query, no
\* diagnostics query, no diagnosis request, no remediation command; when the
\* probe succeeds and the scan finds nothing, scan ends with exit status 0
\* and no diagnosis request is made.
C26_ProbeFailureIsFatal ==
    /\ \A n \in C26_FailedProbes :
          /\ n = Len(k_log)
          /\ k_pc = "exited"
          /\ exit_status = 1
          /\ RunEvents = <<>>
          /\ pc = "idle"
    /\ C26_ScanFoundNothing =>
          /\ k_pc = "exited"
          /\ exit_status = 0
          /\ CallsOf("diagnose") = <<>>
          /\ k_i = 0

\* a diagnose command with --auto-fix whose probe timed out
C26_Witness ==
    /\ invoked = "diagnose"
    /\ auto_fix
    /\ \E n \in C26_FailedProbes : k_log[n].outcome = "timed_out"
    /\ exit_status = 1

\* a scan command has ended after a scan without finding
C26_WitnessNothingFound == C26_ScanFoundNothing /\ exit_status = 0

\* C30: when a diagnose command is invoked with --context C, every kubectl
\* process of the invocation targets C: the probe and the diagnostic queries
\* carry --context C ahead of their arguments, and so does every remediation
\* command auto-fix runs.
C30_EveryProcessTargetsContext ==
    invoked = "diagnose" /\ context # "" =>
       /\ \A n \in DOMAIN k_log :
             k_log[n].what \in {"probe", "gather"} /\ k_log[n].argv # <<>> =>
                /\ Len(k_log[n].argv) >= 3
                /\ k_log[n].argv[1] = "kubectl"
                /\ k_log[n].argv[2] = "--context"
                /\ k_log[n].argv[3] = context
       /\ \A n \in DOMAIN RunEvents :
             RunEvents[n].cmd[1] = "kubectl" =>
                /\ Len(RunEvents[n].cmd) >= 3
                /\ RunEvents[n].cmd[2] = "--context"
                /\ RunEvents[n].cmd[3] = context

\* C30, the part about the probe and the diagnostic queries alone
C30_QueriesTargetContext ==
    invoked = "diagnose" /\ context # "" =>
       \A n \in DOMAIN k_log :
          k_log[n].what \in {"probe", "gather"} /\ k_log[n].argv # <<>> =>
             /\ Len(k_log[n].argv) >= 3
             /\ k_log[n].argv[2] = "--context"
             /\ k_log[n].argv[3] = context

\* a command has been classified
CommandClassified == g_pc = "done"

\* the signature the claim gives the command at hand, from its tokens
C27_ClaimedSignature ==
    LET r == shlex_split(g_command)
        t == r.parts
    IN  CASE ~r.ok -> ""
          [] r.ok /\ Len(t) < 2 -> ""
          [] r.ok /\ Len(t) >= 2 /\ t[1] # "kubectl" -> ""
          [] r.ok /\ Len(t) >= 3 /\ t[1] = "kubectl"
             /\ t[2] = "rollout" /\ t[3] = "restart" -> "rollout restart"
          [] r.ok /\ Len(t) >= 3 /\ t[1] = "kubectl"
             /\ t[2] = "set" /\ t[3] = "image" -> "set image"
          [] r.ok /\ Len(t) >= 3 /\ t[1] = "kubectl"
             /\ t[2] = "set" /\ t[3] = "resources" -> "set resources"
          [] OTHER -> t[2]

\* C27: the signature of a command is empty when the command cannot be
\* tokenized, has fewer than two tokens or does not begin with kubectl;
\* otherwise it is "rollout restart" when tokens 2-3 are rollout restart,
\* "set image" or "set resources" when token 2 is set and token 3 is image or
\* resources, and token 2 in every other case; a command with an empty
\* signature is neither safe-eligible nor risky, and no command is both.
C27_SignatureAsClaimed ==
    CommandClassified =>
       /\ g_signature = C27_ClaimedSignature
       /\ g_signature = "" => ~g_safe /\ ~g_risky
       /\ ~(g_safe /\ g_risky)

\* kubectl rollout restart has been given the compound signature
C27_Witness ==
    /\ CommandClassified
    /\ g_command = <<"kubectl", " ", "rollout", " ", "restart">>
    /\ g_signature = "rollout restart"
    /\ g_safe /\ ~g_risky

\* a command that cannot be tokenized has been classified
C27_WitnessUntokenizable ==
    /\ CommandClassified
    /\ ~shlex_split(g_command).ok
    /\ g_signature = ""

\* C28: _run called with check=True raises KubectlError whenever the exit
\* code of the command is non-zero, on every call made on an instance, a
\* repeated call with the same arguments within the time-to-live of the cache
\* included: a check=True caller never gets a result tuple whose exit code is
\* not zero.
C28_CheckedCallNeverReturnsFailure ==
    r_calls > 0 /\ r_last.check /\ ~r_last.raised => r_last.returncode = 0

\* C28 for the calls that spawn a process (every call when caching is off)
C28_SpawnedCheckedCallRaises ==
    r_calls > 0 /\ r_last.check /\ r_last.spawned /\ r_last.returncode # 0
       => r_last.raised

\* a checked call was answered from the cache
C28_CheckedCacheHit == r_calls > 0 /\ r_last.check /\ ~r_last.spawned

\* c1 \o ... \o cn
RECURSIVE C29_Concat(_)
C29_Concat(cs) == IF cs = <<>> THEN "" ELSE cs[1] \o C29_Concat(Tail(cs))

\* C29: stream_diagnosis takes the chunks once and in order: after each chunk
\* the text rendered is the concatenation of the chunks taken so far, the
\* text returned is the concatenation of all the chunks, and every text
\* rendered is a prefix of the text returned.
C29_RenderedAndReturnedAgree ==
    /\ Len(rendered) = st_taken
    /\ \A k \in DOMAIN rendered :
          rendered[k] = C29_Concat(SubSeq(stream, 1, k))
    /\ st_pc = "returned" =>
          /\ st_taken = Len(stream)
          /\ st_result = C29_Concat(stream)
          /\ \A k \in DOMAIN rendered :
                rendered[k] \o C29_Concat(SubSeq(stream, k + 1, Len(stream)))
                   = st_result

\* a stream of three different chunks has been rendered and returned
C29_Witness ==
    /\ st_pc = "returned"
    /\ stream = <<"kubectl ", "get ", "pods">>
    /\ Len(rendered) = 3
    /\ rendered[2] = "kubectl get "
    /\ st_result = "kubectl get pods"

====
